---- MODULE Spec2Model ----
(***************************************************************************)
(* Model of the faucet core of inx-faucet (src/pkg/faucet/faucet.go): the  *)
(* request queue and admission (Enqueue), the Batcher (RunFaucetLoop,      *)
(* collectRequestsAndSendFaucetBlock), the metadata poll                   *)
(* (checkPendingTransactionState, Source A), the ledger-update handler     *)
(* (ApplyAcceptedTransaction, Source B) and the ledger they talk to.       *)
(*                                                                         *)
(* Locking.  Every section of the code that runs between f.Lock() and      *)
(* f.Unlock(), or between f.RLock() and f.RUnlock(), is one action: the    *)
(* RWMutex makes the sections atomic with respect to each other.  Code     *)
(* that touches shared state outside a lock (the channel receives of       *)
(* collectRequests, the f.pendingTransaction read of line 780) is an       *)
(* action of its own, so it interleaves with everything else.              *)
(*                                                                         *)
(* Amounts are scaled down (10_000_000 -> 2, ...) and so are the channel   *)
(* capacity and iotago.MaxOutputsCount; uint64/int64 arithmetic never      *)
(* wraps at these magnitudes and is modelled on the naturals.              *)
(*                                                                         *)
(* Environment.  The node's answers (health, balance query, metadata,      *)
(* submission result, ledger acceptance) are inputs chosen by \E.  The     *)
(* shutdown signal is read by the Batcher alone and is raised in the step  *)
(* that sees it.  `response` holds what the step just taken returned to a  *)
(* caller of Enqueue and is reset by every other step.                     *)
(*                                                                         *)
(* History.  Requests carry an identity (id) standing for the pointer      *)
(* *queueItem; fate, applied, misapplied, lastRead and flushed record what *)
(* happened to requests, Pending Transaction instances and collections and *)
(* change no behaviour.                                                    *)
(***************************************************************************)
EXTENDS Integers, Sequences, FiniteSets, TLC

\* ------------------------------------------------------------------ bounds
\* Number of requests Enqueue may admit in one behaviour.
MaxRequests == 2
\* Number of transactions the Batcher may submit in one behaviour.
MaxTx == 1

\* Largest amount in a configuration of the tiering specification.
MaxAmount == 3
MaxBatch == 3
MaxInputs == 3
MaxFifo == 5

\* ------------------------------------------------- program constants, scaled
\* cap(f.queue), 5000 in init(): the model runs the faucet with a channel of
\* one slot (a full channel is easy to reach) and of two (the channel can
\* hold two requests at once).
QueueCaps == {1, 2}
\* iotago.MaxOutputsCount (128), the bound of collectRequests and of the filter.
MaxOutputsCount == 4
\* MinDeposit(EmptyBasicOutput): the reserved storage deposit.
minStorageDeposit == 1

\* The HTTP handler tasks calling Enqueue.
Clients == {"h1", "h2"}
\* Well-formed bech32 addresses with the right network prefix.
Addrs == {"addr_A", "addr_B"}
\* A string parseBech32Address rejects.
BadAddr == "not_bech32"
\* The faucet's own address (remainder outputs go there).
FaucetAddress == "faucet"

\* defaultOptions: baseTokenAmount / baseTokenAmountSmall / baseTokenAmountMaxTarget.
DefaultOptions ==
    [baseTokenAmount |-> 2, baseTokenAmountSmall |-> 1, baseTokenAmountMaxTarget |-> 3]

\* f.pendingTransaction == nil
NoPending == [TransactionID |-> 0, QueuedItems |-> <<>>, ConsumedInputs |-> {}]

\* No ledger update in hand.
NoUpdate == [created |-> {}, consumed |-> {}, repeat |-> FALSE]

VARIABLES
    opts,               \* f.opts (the three amounts)
    capacity,           \* cap(f.queue)
    faucetBalance,      \* f.faucetBalance, the stored projection
    queue,              \* f.queue, the buffered channel (FIFO)
    queueMap,           \* f.queueMap, address -> queueItem
    pendingTransaction, \* f.pendingTransaction (NoPending = nil)
    pc,                 \* per client: position in Enqueue
    call,               \* per client: the request Enqueue is about to commit
    response,           \* what the step just taken returned to an Enqueue caller
    raced,              \* per client: another call for the same address succeeded meanwhile
    pcB,                \* position of the RunFaucetLoop goroutine
    batchedRequests,    \* the Batcher's local batch
    snapA,              \* Source A: TransactionID snapshotted under RLock
    decA,               \* Source A: decision taken from the snapshot
    pcS,                \* position of the ledger-update goroutine
    update,             \* Source B: the ledger update being applied
    snapS,              \* Source B: TransactionID snapshotted under RLock
    decS,               \* Source B: decision taken from the snapshot
    ledgerUpdates,      \* ledger updates not yet delivered to ApplyAcceptedTransaction
    unspentOutputs,     \* the faucet address's unspent outputs on the ledger
    txs,                \* the transactions the faucet submitted, by TransactionID
    cancelled,          \* the Batcher has seen ctx.Done() closed
    nextReq,            \* identity of the next queueItem Enqueue allocates
    fate,               \* history: what became of each admitted queueItem
    applied,            \* history: terminal decisions applied, per TransactionID
    misapplied,         \* history: a decision was applied to another slot value than decided for
    lastRead,           \* history: sum of the unspent outputs at the last projection
    flushed             \* history: batch and FIFO when the current collection was flushed

vars == <<opts, capacity, faucetBalance, queue, queueMap, pendingTransaction,
          pc, call, response, raced, pcB, batchedRequests, snapA, decA,
          pcS, update, snapS, decS, ledgerUpdates, unspentOutputs, txs,
          cancelled, nextReq, fate, applied, misapplied, lastRead, flushed>>

clientVars == <<pc, call, raced>>
batcherVars == <<pcB, batchedRequests, snapA, decA>>
sourceBVars == <<pcS, update, snapS, decS>>
ledgerVars == <<ledgerUpdates, unspentOutputs, txs>>
coreVars == <<faucetBalance, queue, queueMap, pendingTransaction>>
historyVars == <<fate, applied, misapplied, lastRead, flushed>>

\* ---------------------------------------------------------------- helpers
RECURSIVE SumAmounts(_)
\* Sum of BaseTokenAmount over a sequence of queueItems.
SumAmounts(s) ==
    IF s = <<>> THEN 0 ELSE Head(s).BaseTokenAmount + SumAmounts(Tail(s))

RECURSIVE SumOutputs(_)
\* Sum of Amount over a set of unspent outputs.
SumOutputs(S) ==
    IF S = {} THEN 0
    ELSE LET o == CHOOSE x \in S : TRUE IN o.Amount + SumOutputs(S \ {o})

RECURSIVE SumMap(_)
\* Sum of BaseTokenAmount over the values of a queueMap.
SumMap(m) ==
    IF DOMAIN m = {} THEN 0
    ELSE LET a == CHOOSE x \in DOMAIN m : TRUE
         IN m[a].BaseTokenAmount + SumMap([x \in DOMAIN m \ {a} |-> m[x]])

Min(a, b) == IF a < b THEN a ELSE b

\* Addresses / identities of a sequence of queueItems.
AddrsOf(s) == {s[i].Bech32 : i \in 1..Len(s)}
IdsOf(s) == {s[i].id : i \in 1..Len(s)}


\* ------------------------------------------------ pure parts of the code
\* The balance projection of New(): sum of the unspent outputs, minus the
\* storage deposit, minus every amount in f.queueMap, each step floored at 0.
collectUnlockableFaucetOutputsAndBalance(unspent, m) ==
    LET balance == SumOutputs(unspent)
        pendingRequestsBalance == SumMap(m)
        b1 == IF balance >= minStorageDeposit
              THEN balance - minStorageDeposit ELSE 0
    IN IF b1 >= pendingRequestsBalance THEN b1 - pendingRequestsBalance ELSE 0

\* An index check that never finds the address (a faulty variant, for the
\* sensitivity of C10).
isNeverInQueue(m, bech32Addr) == FALSE

\* _, exists := f.queueMap[bech32Addr]
isAlreadyinQueue(m, bech32Addr) == bech32Addr \in DOMAIN m

\* Lines 404-412 of Enqueue: the amount to commit, or the "enough funds"
\* rejection.  q is the result of computeUnlockableAddressBalanceFunc.
EnqueueAmount(o, q) ==
    IF ~q.err /\ q.balance >= o.baseTokenAmount
    THEN IF q.balance >= o.baseTokenAmountMaxTarget
         THEN [status |-> "ErrEnoughFunds", amount |-> o.baseTokenAmountSmall]
         ELSE [status |-> "ok", amount |-> o.baseTokenAmountSmall]
    ELSE [status |-> "ok", amount |-> o.baseTokenAmount]

\* The error each failure of Enqueue wraps.
ErrorKind(status) ==
    CASE status \in {"ErrInvalidAddress", "ErrAlreadyInQueue", "ErrEnoughFunds"}
            -> "InvalidParameter"
      [] status \in {"ErrUnhealthy", "ErrNoFunds", "ErrQueueFull"}
            -> "InternalServerError"
      [] OTHER -> "none"

\* delete(f.queueMap, request.Bech32)
clearRequestWithoutLocking(m, request) ==
    [a \in DOMAIN m \ {request.Bech32} |-> m[a]]

\* A clear that leaves the map as it is (a faulty variant, for the sensitivity
\* of C12).
clearNoRequests(m, requests) == m

RECURSIVE clearRequestsWithoutLocking(_, _)
clearRequestsWithoutLocking(m, requests) ==
    IF requests = <<>> THEN m
    ELSE clearRequestsWithoutLocking(
             clearRequestWithoutLocking(m, Head(requests)), Tail(requests))

RECURSIVE readdRequestsKeepingIndex(_, _, _, _)
\* A readd that leaves a request that found the channel full in the map (a
\* faulty variant, for the sensitivity of C13).
readdRequestsKeepingIndex(cap, q, m, requests) ==
    IF requests = <<>> THEN [queue |-> q, queueMap |-> m, failed |-> <<>>]
    ELSE LET r == Head(requests) IN
         IF Len(q) < cap
         THEN readdRequestsKeepingIndex(cap, Append(q, r), m, Tail(requests))
         ELSE LET rest == readdRequestsKeepingIndex(cap, q, m, Tail(requests))
              IN [rest EXCEPT !.failed = <<r>> \o @]

RECURSIVE readdRequestsUntilFull(_, _, _, _)
\* A readd that gives up at the first request that finds the channel full:
\* that request is deleted from the map, the ones behind it are not looked at
\* (a faulty variant, for the sensitivity of C28).
readdRequestsUntilFull(cap, q, m, requests) ==
    IF requests = <<>> THEN [queue |-> q, queueMap |-> m, failed |-> <<>>]
    ELSE LET r == Head(requests) IN
         IF Len(q) < cap
         THEN readdRequestsUntilFull(cap, Append(q, r), m, Tail(requests))
         ELSE [queue |-> q, queueMap |-> clearRequestWithoutLocking(m, r),
               failed |-> requests]

RECURSIVE readdRequestsWithoutLocking(_, _, _, _)
\* Non-blocking send of each request to the channel; a request that finds the
\* channel full is deleted from the map.  Yields the new channel and map and
\* the requests that could not be readded.
readdRequestsWithoutLocking(cap, q, m, requests) ==
    IF requests = <<>> THEN [queue |-> q, queueMap |-> m, failed |-> <<>>]
    ELSE LET r == Head(requests) IN
         IF Len(q) < cap
         THEN readdRequestsWithoutLocking(cap, Append(q, r), m, Tail(requests))
         ELSE LET rest == readdRequestsWithoutLocking(
                              cap, q, clearRequestWithoutLocking(m, r), Tail(requests))
              IN [rest EXCEPT !.failed = <<r>> \o @]

RECURSIVE FilterRequestsUnfunded(_, _, _, _, _)
\* The loop without its funds check: no request is dropped for insufficient
\* funds (a faulty variant, for the sensitivity of C34).
FilterRequestsUnfunded(counter, balance, requests, nodeHealthy, acc) ==
    IF requests = <<>> THEN acc
    ELSE LET request == Head(requests) IN
         IF ~nodeHealthy \/ counter >= MaxOutputsCount - 1
         THEN FilterRequestsUnfunded(counter, balance, Tail(requests), nodeHealthy,
                  [acc EXCEPT !.unprocessed = Append(@, request)])
         ELSE FilterRequestsUnfunded(counter + 1, balance, Tail(requests), nodeHealthy,
                  [acc EXCEPT !.processed = Append(@, request)])

RECURSIVE FilterRequests(_, _, _, _, _)
\* The loop of processRequestsWithoutLocking.
FilterRequests(counter, balance, requests, nodeHealthy, acc) ==
    IF requests = <<>> THEN acc
    ELSE LET request == Head(requests) IN
         IF ~nodeHealthy
         THEN FilterRequests(counter, balance, Tail(requests), nodeHealthy,
                  [acc EXCEPT !.unprocessed = Append(@, request)])
         ELSE IF counter >= MaxOutputsCount - 1
         THEN FilterRequests(counter, balance, Tail(requests), nodeHealthy,
                  [acc EXCEPT !.unprocessed = Append(@, request)])
         ELSE IF balance < request.BaseTokenAmount
         THEN FilterRequests(counter, balance, Tail(requests), nodeHealthy,
                  [acc EXCEPT !.dropped = Append(@, request),
                              !.queueMap = clearRequestWithoutLocking(@, request)])
         ELSE FilterRequests(counter + 1, balance - request.BaseTokenAmount,
                  Tail(requests), nodeHealthy,
                  [acc EXCEPT !.processed = Append(@, request)])

\* processRequestsWithoutLocking without its last statement, the readd of the
\* deferred requests (a faulty variant, for the sensitivity of C2).
processRequestsWithoutReadd(counter, balance, requests, nodeHealthy, cap, q, m) ==
    LET f == FilterRequests(counter, balance, requests, nodeHealthy,
                 [processed |-> <<>>, unprocessed |-> <<>>, dropped |-> <<>>,
                  queueMap |-> m])
    IN [processed |-> f.processed, dropped |-> f.dropped, failed |-> <<>>,
        queue |-> q, queueMap |-> f.queueMap]

\* processRequestsWithoutLocking: filter the batch, then readd the deferred
\* requests.  Yields the processable requests, the dropped ones, the ones
\* whose readd failed, and the new channel and map.
processRequestsWithoutLocking(counter, balance, requests, nodeHealthy, cap, q, m) ==
    LET f == FilterRequests(counter, balance, requests, nodeHealthy,
                 [processed |-> <<>>, unprocessed |-> <<>>, dropped |-> <<>>,
                  queueMap |-> m])
        r == readdRequestsWithoutLocking(cap, q, f.queueMap, f.unprocessed)
    IN [processed |-> f.processed, dropped |-> f.dropped, failed |-> r.failed,
        queue |-> r.queue, queueMap |-> r.queueMap]

RECURSIVE AddRequestOutputsUncounted(_, _, _, _)
\* The request loop without its break on the output count (a faulty variant,
\* for the sensitivity of C15).
AddRequestOutputsUncounted(outputCount, remainderAmount, requests, outputs) ==
    IF requests = <<>>
    THEN [outputs |-> outputs, remainderAmount |-> remainderAmount]
    ELSE LET req == Head(requests)
             amount == Min(req.BaseTokenAmount, remainderAmount)
         IN IF remainderAmount = 0
            THEN [outputs |-> outputs, remainderAmount |-> remainderAmount]
            ELSE AddRequestOutputsUncounted(outputCount, remainderAmount - amount,
                     Tail(requests),
                     Append(outputs, [Address |-> req.Bech32, Amount |-> amount,
                                      item |-> req.id]))

RECURSIVE AddRequestOutputsUntruncated(_, _, _, _)
\* The request loop without the cut of a request's amount to the funds that
\* are left (a faulty variant, for the sensitivity of C29).
AddRequestOutputsUntruncated(outputCount, remainderAmount, requests, outputs) ==
    IF requests = <<>>
    THEN [outputs |-> outputs, remainderAmount |-> remainderAmount]
    ELSE LET req == Head(requests)
             count == outputCount + 1
             amount == req.BaseTokenAmount
         IN IF count >= MaxOutputsCount - 1 \/ remainderAmount = 0
            THEN [outputs |-> outputs, remainderAmount |-> remainderAmount]
            ELSE AddRequestOutputsUntruncated(count, remainderAmount - amount,
                     Tail(requests),
                     Append(outputs, [Address |-> req.Bech32, Amount |-> amount,
                                      item |-> req.id]))

RECURSIVE AddRequestOutputs(_, _, _, _)
\* The request loop of createTransactionBuilder (lines 677-706).
AddRequestOutputs(outputCount, remainderAmount, requests, outputs) ==
    IF requests = <<>>
    THEN [outputs |-> outputs, remainderAmount |-> remainderAmount]
    ELSE LET req == Head(requests)
             count == outputCount + 1
             amount == Min(req.BaseTokenAmount, remainderAmount)
         IN IF count >= MaxOutputsCount - 1 \/ remainderAmount = 0
            THEN [outputs |-> outputs, remainderAmount |-> remainderAmount]
            ELSE AddRequestOutputs(count, remainderAmount - amount, Tail(requests),
                     Append(outputs, [Address |-> req.Bech32, Amount |-> amount,
                                      item |-> req.id]))

\* createTransactionBuilder: every unspent output is an input, one output per
\* request until the loop breaks, then the remainder output if any is left.
createTransactionBuilder(unspent, requests) ==
    LET a == AddRequestOutputs(Cardinality(unspent), SumOutputs(unspent),
                 requests, <<>>)
    IN [outputs |-> IF a.remainderAmount > 0
                    THEN Append(a.outputs, [Address |-> FaucetAddress,
                                            Amount |-> a.remainderAmount, item |-> 0])
                    ELSE a.outputs,
        consumedInputs |-> {o.OutputID : o \in unspent},
        remainderOutputIndex |-> Len(a.outputs)]

\* What fetchTransactionMetadataFunc can answer for a transaction in the given
\* ledger state: "error" is a failed fetch, "nil" a nil metadata.
FetchResults(state) ==
    CASE state = "inflight" -> {"error", "nil", "Unknown", "Pending"}
      [] state = "accepted" -> {"error", "Accepted", "Committed", "Finalized"}
      [] OTHER -> {"error", "Failed"}

\* A poll that takes a failed transaction for one still pending (a faulty
\* variant, for the sensitivity of C24).
checkFailedKept(pendingTx, metadata) ==
    IF pendingTx = NoPending THEN "keep"
    ELSE CASE metadata \in {"error", "nil", "Unknown"} -> "readd"
           [] metadata \in {"Pending", "Failed"} -> "keep"
           [] OTHER -> "clear"

\* checkPendingTransaction of checkPendingTransactionState (lines 905-948).
checkPendingTransactionA(pendingTx, metadata) ==
    IF pendingTx = NoPending THEN "keep"
    ELSE CASE metadata \in {"error", "nil", "Unknown", "Failed"} -> "readd"
           [] metadata = "Pending" -> "keep"
           [] OTHER -> "clear"

\* A check of the ledger update that looks at the consumed inputs before the
\* created outputs (a faulty variant, for the sensitivity of C25).
checkConsumedFirst(pendingTx, u) ==
    IF pendingTx = NoPending THEN "keep"
    ELSE IF pendingTx.ConsumedInputs \cap u.consumed # {} THEN "readd"
    ELSE IF <<pendingTx.TransactionID, 0>> \in u.created THEN "clear"
    ELSE "keep"

\* A check of the ledger update that does not look at the slot: any created
\* output counts as the pending transaction's (a faulty variant, for the
\* sensitivity of C14).
checkCreatedOnly(pendingTx, u) ==
    IF u.created # {} THEN "clear" ELSE "keep"

\* checkPendingTransaction of ApplyAcceptedTransaction (lines 1002-1035).
checkPendingTransactionB(pendingTx, u) ==
    IF pendingTx = NoPending THEN "keep"
    ELSE IF <<pendingTx.TransactionID, 0>> \in u.created THEN "clear"
    ELSE IF pendingTx.ConsumedInputs \cap u.consumed # {} THEN "readd"
    ELSE "keep"

\* A resolver that gives up its decision once it holds the write lock (a
\* faulty variant, for the sensitivity of C22).
DecisionDropped(snapshot, snapshotDecision, current, currentDecision) ==
    [decision |-> "keep", for |-> snapshot]

\* The resolver without the recheck under the write lock: the decision taken
\* from the snapshot is applied whatever the slot holds now (a faulty variant,
\* for the sensitivity of C5).
DecisionFromSnapshot(snapshot, snapshotDecision, current, currentDecision) ==
    [decision |-> snapshotDecision, for |-> snapshot]

\* Lines 972-975 and 1055-1058: under the write lock the decision taken from
\* the snapshot stands only if the slot still holds the snapshotted pointer;
\* otherwise it is taken again from the current slot.
DecisionUnderLock(snapshot, snapshotDecision, current, currentDecision) ==
    IF snapshot # current.TransactionID
    THEN [decision |-> currentDecision, for |-> current.TransactionID]
    ELSE [decision |-> snapshotDecision, for |-> snapshot]


\* ------------------------------------------------------------ initial state
\* No flush token was received by the collection in progress.
NoFlush == [on |-> FALSE, batch |-> <<>>, fifo |-> <<>>]

NoCall == [Bech32 |-> "", BaseTokenAmount |-> 0]
NoResponse == [Bech32 |-> "", status |-> "none", waiting |-> 0, raced |-> FALSE]

\* The error response of an Enqueue call for bech32Addr.
Failure(bech32Addr, status) ==
    [Bech32 |-> bech32Addr, status |-> status, waiting |-> 0, raced |-> FALSE]

\* The faucet address's outputs when the faucet starts: one output, or two
\* (two make the Batcher sweep).
InitialOutputSets ==
    { {[OutputID |-> <<0, 0>>, Amount |-> 4]},
      {[OutputID |-> <<0, 0>>, Amount |-> 3], [OutputID |-> <<0, 1>>, Amount |-> 2]} }

\* New() and init(): empty channel, empty map, no pending transaction,
\* faucetBalance 0; no goroutine has run yet.
InitWith(o, cap, outputs) ==
    /\ opts = o
    /\ capacity = cap
    /\ faucetBalance = 0
    /\ queue = <<>>
    /\ queueMap = <<>>
    /\ pendingTransaction = NoPending
    /\ pc = [c \in Clients |-> "idle"]
    /\ call = [c \in Clients |-> NoCall]
    /\ response = NoResponse
    /\ raced = [c \in Clients |-> FALSE]
    /\ pcB = "init"
    /\ batchedRequests = <<>>
    /\ snapA = 0
    /\ decA = "keep"
    /\ pcS = "idle"
    /\ update = NoUpdate
    /\ snapS = 0
    /\ decS = "keep"
    /\ ledgerUpdates = <<>>
    /\ unspentOutputs = outputs
    /\ txs = <<>>
    /\ cancelled = FALSE
    /\ nextReq = 1
    /\ fate = <<>>
    /\ applied = <<>>
    /\ misapplied = FALSE
    /\ lastRead = 0
    /\ flushed = NoFlush

Init ==
    \E cap \in QueueCaps, outputs \in InitialOutputSets :
        InitWith(DefaultOptions, cap, outputs)

\* No goroutine has panicked.
Running == pcB # "panic"

\* New HTTP calls and ledger updates arrive: the process runs, the daemon
\* has not been told to shut down (the shutdown that closes ctx.Done() also
\* stops the HTTP server and the ledger-update stream) and RunFaucetLoop has
\* not returned (the plugin answers its error with a shutdown of the daemon).
Alive == Running /\ ~cancelled /\ pcB # "done"

\* ------------------------------------------------------------------ Enqueue
\* What computeUnlockableAddressBalanceFunc can return: an error, or a balance
\* in each tier of the options.
BalanceQueries(o) ==
    {[err |-> TRUE, balance |-> 0]} \cup
    {[err |-> FALSE, balance |-> b] :
        b \in 0 .. (IF o.baseTokenAmount > o.baseTokenAmountMaxTarget
                    THEN o.baseTokenAmount ELSE o.baseTokenAmountMaxTarget)}

\* Calls in flight that may still admit a request.
Committing == {c \in Clients : pc[c] = "commit"}

\* A funds check that also refuses a commit equal to the projection (a faulty
\* variant, for the sensitivity of C11).
InsufficientFundsOrEqual(baseTokenAmount, balance) == baseTokenAmount >= balance

\* baseTokenAmount > f.faucetBalance (line 419)
InsufficientFunds(baseTokenAmount, balance) == baseTokenAmount > balance

\* A debit that takes one token more than the amount (a faulty variant, for
\* the sensitivity of C20).
EnqueueBalanceLessOne(balance, baseTokenAmount) == balance - baseTokenAmount - 1

\* Enqueue without the debit of the projection (a faulty variant, for the
\* sensitivity of C8).
EnqueueBalanceKept(balance, baseTokenAmount) == balance

\* f.faucetBalance -= baseTokenAmount
EnqueueBalance(balance, baseTokenAmount) == balance - baseTokenAmount

\* Enqueue, lines 391-412: parse, health check, the read-locked index check
\* and the balance query with the choice of the amount.  Nothing here writes
\* shared state, and the only shared read is the index check.
EnqueueCheck(c, bech32Addr, healthy, q) ==
    /\ Alive
    /\ pc[c] = "idle"
    /\ nextReq + Cardinality(Committing) <= MaxRequests
    /\ LET tier == EnqueueAmount(opts, q)
           status == IF bech32Addr = BadAddr THEN "ErrInvalidAddress"
                     ELSE IF ~healthy THEN "ErrUnhealthy"
                     ELSE IF isAlreadyinQueue(queueMap, bech32Addr)
                          THEN "ErrAlreadyInQueue"
                     ELSE tier.status
       IN IF status = "ok"
          THEN /\ pc' = [pc EXCEPT ![c] = "commit"]
               /\ call' = [call EXCEPT ![c] =
                              [Bech32 |-> bech32Addr, BaseTokenAmount |-> tier.amount]]
               /\ response' = NoResponse
          ELSE /\ pc' = pc
               /\ call' = call
               /\ response' = Failure(bech32Addr, status)
    /\ raced' = raced
    /\ UNCHANGED <<opts, capacity, coreVars, batcherVars, sourceBVars, ledgerVars,
                   cancelled, nextReq, historyVars>>

\* Enqueue, lines 416-443: the write-locked commit.
EnqueueCommit(c) ==
    /\ Running
    /\ pc[c] = "commit"
    /\ pc' = [pc EXCEPT ![c] = "idle"]
    /\ call' = [call EXCEPT ![c] = NoCall]
    /\ LET baseTokenAmount == call[c].BaseTokenAmount
           bech32Addr == call[c].Bech32
           request == [id |-> nextReq, Bech32 |-> bech32Addr,
                       BaseTokenAmount |-> baseTokenAmount]
       IN IF InsufficientFunds(baseTokenAmount, faucetBalance)
          THEN /\ response' = Failure(bech32Addr, "ErrNoFunds")
               /\ raced' = [raced EXCEPT ![c] = FALSE]
               /\ UNCHANGED <<faucetBalance, queue, queueMap, nextReq, fate>>
          ELSE IF Len(queue) < capacity
          THEN /\ queue' = Append(queue, request)
               /\ faucetBalance' = EnqueueBalance(faucetBalance, baseTokenAmount)
               /\ queueMap' = [a \in DOMAIN queueMap \cup {bech32Addr} |->
                                  IF a = bech32Addr THEN request ELSE queueMap[a]]
               /\ response' = [Bech32 |-> bech32Addr, status |-> "ok",
                               waiting |-> Cardinality(DOMAIN queueMap'),
                               raced |-> raced[c]]
               /\ nextReq' = nextReq + 1
               /\ fate' = Append(fate, "live")
               /\ raced' = [d \in Clients |->
                              IF d = c THEN FALSE
                              ELSE IF pc[d] = "commit" /\ call[d].Bech32 = bech32Addr
                              THEN TRUE ELSE raced[d]]
          ELSE /\ response' = Failure(bech32Addr, "ErrQueueFull")
               /\ raced' = [raced EXCEPT ![c] = FALSE]
               /\ UNCHANGED <<faucetBalance, queue, queueMap, nextReq, fate>>
    /\ UNCHANGED <<opts, capacity, pendingTransaction, batcherVars, sourceBVars,
                   ledgerVars, cancelled, applied, misapplied, lastRead, flushed>>

\* --------------------------------------------------------- history helpers
\* The requests of `requests` reach the terminal outcome `outcome`; a request
\* that had reached one already is marked "twice".
SetFate(f, requests, outcome) ==
    [i \in DOMAIN f |->
        IF i \in IdsOf(requests)
        THEN (IF f[i] = "live" THEN outcome ELSE "twice")
        ELSE f[i]]

\* ------------------------------------------------- resolving the pending slot
\* clearPendingRequestsWithoutLocking / readdPendingRequestsWithoutLocking as
\* called at the end of checkPendingTransactionState and of
\* ApplyAcceptedTransaction, for the decision r taken under the write lock.
\* Both dereference f.pendingTransaction: with a nil slot the goroutine
\* panics, which the history variable misapplied records.
ApplyDecision(r) ==
    LET p == pendingTransaction
        rd == readdRequestsWithoutLocking(capacity, queue, queueMap, p.QueuedItems)
    IN IF r.decision = "keep"
       THEN UNCHANGED <<queue, queueMap, pendingTransaction, fate, applied, misapplied>>
       ELSE IF p = NoPending
       THEN /\ misapplied' = TRUE
            /\ UNCHANGED <<queue, queueMap, pendingTransaction, fate, applied>>
       ELSE /\ pendingTransaction' = NoPending
            /\ applied' = [applied EXCEPT ![p.TransactionID] = @ + 1]
            /\ misapplied' = (misapplied \/ r.for # p.TransactionID)
            /\ IF r.decision = "clear"
               THEN /\ queueMap' = clearRequestsWithoutLocking(queueMap, p.QueuedItems)
                    /\ queue' = queue
                    /\ fate' = SetFate(fate, p.QueuedItems, "settled")
               ELSE /\ queueMap' = rd.queueMap
                    /\ queue' = rd.queue
                    /\ fate' = SetFate(fate, rd.failed, "readdFailed")

\* The metadata the node can report for the transaction in the slot.
MetadataOf(pendingTx) ==
    IF pendingTx = NoPending THEN {"nil"}
    ELSE FetchResults(txs[pendingTx.TransactionID].state)

\* ------------------------------------------------------------ RunFaucetLoop
\* computeAndSetInitialFaucetBalance; an error is wrapped as critical and
\* ends RunFaucetLoop.
BatcherInit(collect) ==
    /\ response' = NoResponse
    /\ pcB = "init"
    /\ IF collect = "ok"
       THEN /\ faucetBalance' =
                   collectUnlockableFaucetOutputsAndBalance(unspentOutputs, queueMap)
            /\ lastRead' = SumOutputs(unspentOutputs)
            /\ pcB' = "loop"
       ELSE /\ pcB' = "done"
            /\ UNCHANGED <<faucetBalance, lastRead>>
    /\ UNCHANGED <<opts, capacity, queue, queueMap, pendingTransaction, clientVars,
                   batchedRequests, snapA, decA, sourceBVars, ledgerVars, cancelled,
                   nextReq, fate, applied, misapplied, flushed>>

\* case <-ctx.Done() of the loop's select.  Only the Batcher reads the
\* shutdown signal, so the model raises it in the step that sees it.
LoopDone ==
    /\ response' = NoResponse
    /\ pcB = "loop"
    /\ cancelled' = TRUE
    /\ pcB' = "done"
    /\ UNCHANGED <<opts, capacity, coreVars, clientVars, batchedRequests, snapA, decA,
                   sourceBVars, ledgerVars, nextReq, historyVars>>

\* case <-checkPendingTxTicker.C: checkPendingTransactionState up to its
\* early return (lines 950-966): snapshot under RLock, fetch, decide.
SourceACheck(metadata) ==
    /\ response' = NoResponse
    /\ pcB = "loop"
    /\ metadata \in MetadataOf(pendingTransaction)
    /\ LET d == checkPendingTransactionA(pendingTransaction, metadata)
       IN IF d = "keep"
          THEN UNCHANGED <<pcB, snapA, decA>>
          ELSE /\ pcB' = "applyA"
               /\ snapA' = pendingTransaction.TransactionID
               /\ decA' = d
    /\ UNCHANGED <<opts, capacity, coreVars, clientVars, batchedRequests,
                   sourceBVars, ledgerVars, cancelled, nextReq, historyVars>>

\* checkPendingTransactionState under the write lock (lines 969-991).
SourceAApply(metadata) ==
    /\ response' = NoResponse
    /\ pcB = "applyA"
    /\ metadata \in MetadataOf(pendingTransaction)
    /\ ApplyDecision(DecisionUnderLock(snapA, decA, pendingTransaction,
           checkPendingTransactionA(pendingTransaction, metadata)))
    /\ pcB' = "loop"
    /\ snapA' = 0
    /\ decA' = "keep"
    /\ UNCHANGED <<opts, capacity, faucetBalance, clientVars, batchedRequests,
                   sourceBVars, ledgerVars, cancelled, nextReq, lastRead, flushed>>

\* The Batcher without its check of the slot: it always goes on to collect
\* (a faulty variant, for the sensitivity of C6).
PendingNeverFound(pendingTx) == FALSE

\* pendingTx != nil (line 779), on the value snapshotted under RLock.
PendingFound(pendingTx) == pendingTx # NoPending

\* default: of the loop's select, taken when neither ctx.Done() nor the ticker
\* is ready: collectRequestsAndSendFaucetBlock, lines 774-779.
BatcherSnapshot ==
    /\ response' = NoResponse
    /\ pcB = "loop"
    /\ ~cancelled
    /\ IF PendingFound(pendingTransaction)
       THEN pcB' = "cooldown" /\ UNCHANGED batchedRequests
       ELSE pcB' = "collect" /\ batchedRequests' = <<>>
    /\ UNCHANGED <<opts, capacity, coreVars, clientVars, snapA, decA, sourceBVars,
                   ledgerVars, cancelled, nextReq, historyVars>>

\* Lines 780-789: the debug message reads f.pendingTransaction.BlockID with
\* no lock held (a nil slot panics), then the cooldown returns nil.
BatcherCooldown ==
    /\ response' = NoResponse
    /\ pcB = "cooldown"
    /\ pcB' = IF pendingTransaction = NoPending THEN "panic" ELSE "loop"
    /\ UNCHANGED <<opts, capacity, coreVars, clientVars, batchedRequests, snapA, decA,
                   sourceBVars, ledgerVars, cancelled, nextReq, historyVars>>

\* collectRequests, case <-ctx.Done(): the batch collected so far is discarded
\* and collectRequestsAndSendFaucetBlock returns nil.
CollectAbort ==
    /\ response' = NoResponse
    /\ pcB = "collect"
    /\ cancelled' = TRUE
    /\ pcB' = "loop"
    /\ batchedRequests' = <<>>
    /\ fate' = SetFate(fate, batchedRequests, "abandoned")
    /\ UNCHANGED <<opts, capacity, coreVars, clientVars, snapA, decA, sourceBVars,
                   ledgerVars, nextReq, applied, misapplied, lastRead, flushed>>

\* collectRequests, case <-time.After(f.opts.batchTimeout).  The timer is
\* created anew by each evaluation of the select, so it cannot be ready in a
\* select that finds ctx.Done() ready.
CollectTimeout ==
    /\ response' = NoResponse
    /\ pcB = "collect"
    /\ ~cancelled
    /\ pcB' = "process"
    /\ UNCHANGED <<opts, capacity, coreVars, clientVars, batchedRequests, snapA, decA,
                   sourceBVars, ledgerVars, cancelled, nextReq, historyVars>>

\* collectRequests, case request := <-f.queue.
CollectReceive ==
    /\ response' = NoResponse
    /\ pcB = "collect"
    /\ queue # <<>>
    /\ batchedRequests' = Append(batchedRequests, Head(queue))
    /\ queue' = Tail(queue)
    /\ pcB' = IF Len(batchedRequests') < MaxOutputsCount THEN "collect" ELSE "process"
    /\ UNCHANGED <<opts, capacity, faucetBalance, queueMap, pendingTransaction,
                   clientVars, snapA, decA, sourceBVars, ledgerVars, cancelled, nextReq,
                   historyVars>>

\* FlushRequests meets collectRequests' case <-f.flushQueue: the channel is
\* unbuffered, so the send of FlushRequests and the receive of the Batcher
\* are one step; FlushRequests blocks while the Batcher is elsewhere.
FlushRequests ==
    /\ response' = NoResponse
    /\ pcB = "collect"
    /\ pcB' = "drain"
    /\ flushed' = [on |-> TRUE, batch |-> batchedRequests, fifo |-> queue]
    /\ UNCHANGED <<opts, capacity, coreVars, clientVars, batchedRequests, snapA, decA, sourceBVars,
                   ledgerVars, cancelled, nextReq, fate, applied, misapplied, lastRead>>

\* A flush that ends the batch at once, leaving the FIFO as it is (a faulty
\* variant, for the sensitivity of C21).
CollectDrainNothing ==
    /\ response' = NoResponse
    /\ pcB = "drain"
    /\ pcB' = "process"
    /\ UNCHANGED <<opts, capacity, coreVars, clientVars, batchedRequests, snapA, decA,
                   sourceBVars, ledgerVars, cancelled, nextReq, historyVars>>

\* The inner loop after a flush (lines 557-569): receive without waiting
\* until the channel is empty or the batch is full.
CollectDrain ==
    /\ response' = NoResponse
    /\ pcB = "drain"
    /\ IF Len(batchedRequests) < MaxOutputsCount /\ queue # <<>>
       THEN /\ batchedRequests' = Append(batchedRequests, Head(queue))
            /\ queue' = Tail(queue)
            /\ pcB' = "drain"
       ELSE /\ pcB' = "process"
            /\ UNCHANGED <<batchedRequests, queue>>
    /\ UNCHANGED <<opts, capacity, faucetBalance, queueMap, pendingTransaction,
                   clientVars, snapA, decA, sourceBVars, ledgerVars, cancelled, nextReq,
                   historyVars>>


\* What submitTransactionPayloadFunc can return: once limit transactions were
\* submitted the model lets it only fail.
SubmitResultsWithin(limit) ==
    IF Len(txs) < limit THEN {"ok", "unidentified", "soft", "critical"}
    ELSE {"soft", "critical"}

SubmitResults == SubmitResultsWithin(MaxTx)

\* An iteration that always finds something to send (a faulty variant, for
\* the sensitivity of C16).
AlwaysSomethingToProcess(unspent, requests) == FALSE

\* len(unspentOutputs) < 2 && len(batchedRequests) == 0 (line 818)
NothingToProcess(unspent, requests) ==
    Cardinality(unspent) < 2 /\ Len(requests) = 0

\* collectRequestsAndSendFaucetBlock under the write lock (lines 829-867):
\* recompute the projection, filter the batch, build and submit the
\* transaction, arm the pending slot.  collect is the outcome of
\* collectUnlockableFaucetOutputsAndBalanceFuncWithoutLocking, healthy the
\* answer of isNodeHealthyFunc, submit the outcome of sendFaucetBlockWithoutLocking
\* ("soft": submitTransactionPayloadFunc fails with an error IsCriticalError
\* does not recognise; "unidentified": it succeeds, but the payload it returns
\* is not a *SignedTransaction or has no computable ID, lines 732-740); limit
\* is the number of transactions the node takes in the run.
ProcessBatch(limit, collect, healthy, submit) ==
    /\ response' = NoResponse
    /\ pcB = "process"
    /\ submit \in SubmitResultsWithin(limit)
    /\ batchedRequests' = <<>>
    /\ LET balance == collectUnlockableFaucetOutputsAndBalance(unspentOutputs, queueMap)
           nothing == NothingToProcess(unspentOutputs, batchedRequests)
           rdAll == readdRequestsWithoutLocking(capacity, queue, queueMap, batchedRequests)
           p == processRequestsWithoutLocking(Cardinality(unspentOutputs), balance,
                    batchedRequests, healthy, capacity, queue, queueMap)
           tx == createTransactionBuilder(unspentOutputs, p.processed)
           rdProcessed == readdRequestsWithoutLocking(capacity, p.queue, p.queueMap,
                              p.processed)
           filtered == SetFate(SetFate(fate, p.dropped, "dropped"), p.failed, "readdFailed")
           transactionID == Len(txs) + 1
       IN CASE collect = "critical" ->
                 \* line 838: return err, the batch is not readded
                 /\ pcB' = "done"
                 /\ fate' = SetFate(fate, batchedRequests, "abandoned")
                 /\ UNCHANGED <<faucetBalance, queue, queueMap, pendingTransaction,
                                txs, applied, lastRead>>
            [] collect = "soft" ->
                 \* line 843
                 /\ pcB' = "loop"
                 /\ queue' = rdAll.queue
                 /\ queueMap' = rdAll.queueMap
                 /\ fate' = SetFate(fate, rdAll.failed, "readdFailed")
                 /\ UNCHANGED <<faucetBalance, pendingTransaction, txs, applied, lastRead>>
            [] collect = "ok" /\ nothing ->
                 \* ErrNothingToProcess, after line 816 stored the projection
                 /\ pcB' = "loop"
                 /\ faucetBalance' = balance
                 /\ lastRead' = SumOutputs(unspentOutputs)
                 /\ UNCHANGED <<queue, queueMap, pendingTransaction, txs, applied, fate>>
            [] collect = "ok" /\ ~nothing /\ submit = "ok" ->
                 \* setPendingTransactionWithoutLocking (lines 742-747)
                 /\ pcB' = "loop"
                 /\ faucetBalance' = balance
                 /\ lastRead' = SumOutputs(unspentOutputs)
                 /\ queue' = p.queue
                 /\ queueMap' = p.queueMap
                 /\ fate' = filtered
                 /\ pendingTransaction' =
                        [TransactionID |-> transactionID, QueuedItems |-> p.processed,
                         ConsumedInputs |-> tx.consumedInputs]
                 /\ txs' = Append(txs, [inputs |-> tx.consumedInputs,
                                        outputs |-> tx.outputs, state |-> "inflight",
                                        armed |-> TRUE])
                 /\ applied' = Append(applied, 0)
            [] collect = "ok" /\ ~nothing /\ submit = "unidentified" ->
                 \* lines 732-740, then line 863: the transaction is with the
                 \* node, the slot stays null, the requests are readded
                 /\ pcB' = "loop"
                 /\ faucetBalance' = balance
                 /\ lastRead' = SumOutputs(unspentOutputs)
                 /\ queue' = rdProcessed.queue
                 /\ queueMap' = rdProcessed.queueMap
                 /\ fate' = SetFate(filtered, rdProcessed.failed, "readdFailed")
                 /\ txs' = Append(txs, [inputs |-> tx.consumedInputs,
                                        outputs |-> tx.outputs, state |-> "inflight",
                                        armed |-> FALSE])
                 /\ applied' = Append(applied, 0)
                 /\ UNCHANGED pendingTransaction
            [] collect = "ok" /\ ~nothing /\ submit = "soft" ->
                 \* line 863
                 /\ pcB' = "loop"
                 /\ faucetBalance' = balance
                 /\ lastRead' = SumOutputs(unspentOutputs)
                 /\ queue' = rdProcessed.queue
                 /\ queueMap' = rdProcessed.queueMap
                 /\ fate' = SetFate(filtered, rdProcessed.failed, "readdFailed")
                 /\ UNCHANGED <<pendingTransaction, txs, applied>>
            [] OTHER ->
                 \* line 860: return err, the processable requests are not readded
                 /\ pcB' = "done"
                 /\ faucetBalance' = balance
                 /\ lastRead' = SumOutputs(unspentOutputs)
                 /\ queue' = p.queue
                 /\ queueMap' = p.queueMap
                 /\ fate' = SetFate(filtered, p.processed, "abandoned")
                 /\ UNCHANGED <<pendingTransaction, txs, applied>>
    /\ flushed' = NoFlush
    /\ UNCHANGED <<opts, capacity, clientVars, snapA, decA, sourceBVars,
                   ledgerUpdates, unspentOutputs, cancelled, nextReq, misapplied>>

\* The locked part of an iteration in a run of at most MaxTx transactions.
BatcherProcess(collect, healthy, submit) ==
    ProcessBatch(MaxTx, collect, healthy, submit)

\* ------------------------------------------------------------------ ledger
\* The ledger accepts a submitted transaction whose inputs are all unspent:
\* the inputs are consumed, the outputs to the faucet address become unspent
\* outputs of the faucet, and a ledger update goes to the subscriber.
LedgerAccept(t) ==
    /\ response' = NoResponse
    /\ Alive
    /\ txs[t].state = "inflight"
    /\ txs[t].inputs # {}
    /\ txs[t].inputs \subseteq {o.OutputID : o \in unspentOutputs}
    /\ Len(txs[t].outputs) > 0
    /\ txs' = [txs EXCEPT ![t].state = "accepted"]
    /\ unspentOutputs' =
          {o \in unspentOutputs : o.OutputID \notin txs[t].inputs} \cup
          {[OutputID |-> <<t, i - 1>>, Amount |-> txs[t].outputs[i].Amount] :
              i \in {j \in 1..Len(txs[t].outputs) :
                        txs[t].outputs[j].Address = FaucetAddress}}
    /\ ledgerUpdates' = Append(ledgerUpdates,
          [created |-> {<<t, i - 1>> : i \in 1..Len(txs[t].outputs)},
           consumed |-> txs[t].inputs, repeat |-> FALSE])
    /\ UNCHANGED <<opts, capacity, coreVars, clientVars, batcherVars, sourceBVars,
                   cancelled, nextReq, historyVars>>

\* The ledger rejects a submitted transaction, or its block is orphaned.
LedgerReject(t) ==
    /\ response' = NoResponse
    /\ Alive
    /\ txs[t].state = "inflight"
    /\ txs' = [txs EXCEPT ![t].state = "failed"]
    /\ UNCHANGED <<opts, capacity, coreVars, clientVars, batcherVars, sourceBVars,
                   ledgerUpdates, unspentOutputs, cancelled, nextReq, historyVars>>

\* ------------------------------------------------ ApplyAcceptedTransaction
\* Lines 1037-1049: snapshot under RLock and decide from the update.
SourceBCheck ==
    /\ response' = NoResponse
    /\ Alive
    /\ pcS = "idle"
    /\ ledgerUpdates # <<>>
    /\ ledgerUpdates' = Tail(ledgerUpdates)
    /\ LET d == checkPendingTransactionB(pendingTransaction, Head(ledgerUpdates))
       IN IF d = "keep"
          THEN UNCHANGED <<pcS, update, snapS, decS>>
          ELSE /\ pcS' = "applyS"
               /\ update' = Head(ledgerUpdates)
               /\ snapS' = pendingTransaction.TransactionID
               /\ decS' = d
    /\ UNCHANGED <<opts, capacity, coreVars, clientVars, batcherVars, unspentOutputs,
                   txs, cancelled, nextReq, historyVars>>

\* Lines 1052-1070: under the write lock.
SourceBApply ==
    /\ response' = NoResponse
    /\ Running
    /\ pcS = "applyS"
    /\ ApplyDecision(DecisionUnderLock(snapS, decS, pendingTransaction,
           checkPendingTransactionB(pendingTransaction, update)))
    /\ pcS' = "idle"
    /\ update' = NoUpdate
    /\ snapS' = 0
    /\ decS' = "keep"
    /\ UNCHANGED <<opts, capacity, faucetBalance, clientVars, batcherVars, ledgerVars,
                   cancelled, nextReq, lastRead, flushed>>

\* ------------------------------------------------------------ specification
Outcomes == {"ok", "soft", "critical"}
SubmitOutcomes == {"ok", "unidentified", "soft", "critical"}
Metadata == {"error", "nil", "Unknown", "Pending", "Accepted", "Committed",
             "Finalized", "Failed"}

Next ==
    \/ \E c \in Clients, a \in Addrs \cup {BadAddr}, h \in BOOLEAN,
          q \in BalanceQueries(opts) : EnqueueCheck(c, a, h, q)
    \/ \E c \in Clients : EnqueueCommit(c)
    \/ \E r \in {"ok", "critical"} : BatcherInit(r)
    \/ LoopDone
    \/ \E m \in Metadata : SourceACheck(m)
    \/ \E m \in Metadata : SourceAApply(m)
    \/ BatcherSnapshot
    \/ BatcherCooldown
    \/ CollectAbort
    \/ CollectTimeout
    \/ CollectReceive
    \/ FlushRequests
    \/ CollectDrain
    \/ \E r \in Outcomes, h \in BOOLEAN, s \in SubmitOutcomes : BatcherProcess(r, h, s)
    \/ \E t \in DOMAIN txs : LedgerAccept(t)
    \/ \E t \in DOMAIN txs : LedgerReject(t)
    \/ SourceBCheck
    \/ SourceBApply

Spec == Init /\ [][Next]_vars

\* ---------------------------------------------------- fair specification
\* RunFaucetLoop is a goroutine of its own (plugin.go, the Faucet worker): it
\* is not starved, so the locked part of a poll that has decided is
\* eventually run, and the default case of the loop's select, which is taken
\* whenever the ticker has not fired, is eventually taken.
Fairness ==
    /\ WF_vars(\E m \in Metadata : SourceAApply(m))
    /\ WF_vars(BatcherSnapshot)

SpecFair == Init /\ [][Next]_vars /\ Fairness

\* ------------------------------------------------- conflict specification
\* Ledger updates the handler has not taken yet, at most.
MaxUpdates == 1

\* An output of an address that is not the faucet's.
StrangerOutput == [OutputID |-> <<9, 0>>, Amount |-> 1]

\* ListenToLedgerUpdates delivers every update of the ledger, not only those
\* of the faucet's transactions.  Another transaction is accepted that spends
\* output o: an output of a stranger, or an output of the faucet address, in
\* which case a transaction in flight that consumes it has lost the conflict.
\* The update names the spent output and none of the outputs of the faucet's
\* transactions.  Only the updates accepted while a transaction of
\* the faucet is in flight are modelled: the others find nothing to conflict with.
LedgerForeign(o) ==
    /\ response' = NoResponse
    /\ Alive
    /\ Len(ledgerUpdates) < MaxUpdates
    /\ \E t \in DOMAIN txs : txs[t].state = "inflight"
    /\ o \in unspentOutputs \cup {StrangerOutput}
    /\ unspentOutputs' = unspentOutputs \ {o}
    /\ txs' = [t \in DOMAIN txs |->
                 IF txs[t].state = "inflight" /\ o.OutputID \in txs[t].inputs
                 THEN [txs[t] EXCEPT !.state = "failed"]
                 ELSE txs[t]]
    /\ ledgerUpdates' = Append(ledgerUpdates,
          [created |-> {}, consumed |-> {o.OutputID}, repeat |-> FALSE])
    /\ UNCHANGED <<opts, capacity, coreVars, clientVars, batcherVars, sourceBVars,
                   cancelled, nextReq, historyVars>>

InitConflict ==
    \E outputs \in InitialOutputSets : InitWith(DefaultOptions, 1, outputs)

NextConflict ==
    Next \/ \E o \in unspentOutputs \cup {StrangerOutput} : LedgerForeign(o)

SpecConflict == InitConflict /\ [][NextConflict]_vars

\* ------------------------------------------------- shutdown specification
\* The context of RunFaucetLoop is cancelled while the Batcher is in the
\* pending cooldown, in collection or between iterations, not only in the
\* step that sees it.  A select that finds several cases ready takes any of
\* them, so a receive or a flush may still be taken after the cancellation.
Cancel ==
    /\ response' = NoResponse
    /\ ~cancelled
    /\ pcB \in {"cooldown", "collect", "loop"}
    /\ cancelled' = TRUE
    /\ UNCHANGED <<opts, capacity, coreVars, clientVars, batcherVars, sourceBVars,
                   ledgerVars, nextReq, historyVars>>

NextStop == Next \/ Cancel

SpecStop == Init /\ [][NextStop]_vars

\* ------------------------------------------------ two-transaction specification
\* Transactions the node takes in a run of SpecTwice.
MaxTxTwice == 2

\* A faucet with one unspent output and a channel of capacity 1.
InitTwice ==
    InitWith(DefaultOptions, 1, {[OutputID |-> <<0, 0>>, Amount |-> 4]})

\* The program as in Spec, with one HTTP caller and a node that takes a
\* second transaction.
NextTwice ==
    \/ \E a \in Addrs \cup {BadAddr}, h \in BOOLEAN, q \in BalanceQueries(opts) :
          EnqueueCheck("h1", a, h, q)
    \/ EnqueueCommit("h1")
    \/ \E r \in {"ok", "critical"} : BatcherInit(r)
    \/ LoopDone
    \/ \E m \in Metadata : SourceACheck(m)
    \/ \E m \in Metadata : SourceAApply(m)
    \/ BatcherSnapshot
    \/ BatcherCooldown
    \/ CollectAbort
    \/ CollectTimeout
    \/ CollectReceive
    \/ FlushRequests
    \/ CollectDrain
    \/ \E r \in Outcomes, h \in BOOLEAN, s \in SubmitOutcomes :
          ProcessBatch(MaxTxTwice, r, h, s)
    \/ \E t \in DOMAIN txs : LedgerAccept(t)
    \/ \E t \in DOMAIN txs : LedgerReject(t)
    \/ SourceBCheck
    \/ SourceBApply

SpecTwice == InitTwice /\ [][NextTwice]_vars

\* ------------------------------------------------ redelivery specification
\* The subscriber of plugin.go is handed the ledger update it was handed last
\* a second time, right behind the first.  The copy is marked so that
\* properties can tell it from the original.
LedgerRepeat ==
    /\ response' = NoResponse
    /\ Alive
    /\ ledgerUpdates # <<>>
    /\ ~ledgerUpdates[Len(ledgerUpdates)].repeat
    /\ ledgerUpdates' = Append(ledgerUpdates,
          [ledgerUpdates[Len(ledgerUpdates)] EXCEPT !.repeat = TRUE])
    /\ UNCHANGED <<opts, capacity, coreVars, clientVars, batcherVars, sourceBVars,
                   unspentOutputs, txs, cancelled, nextReq, historyVars>>

NextRepeat == Next \/ LedgerRepeat

SpecRepeat == Init /\ [][NextRepeat]_vars

\* ----------------------------------------------------- batch specification
\* The locked part of the Batcher's iteration on batches and input sets larger
\* than Spec reaches: the faucet holds up to MaxInputs unspent outputs, its
\* projection was computed, and up to MaxBatch requests, one per address, were
\* admitted against it and collected.
BatchAddrs == <<"addr_A", "addr_B", "addr_C", "addr_D", "addr_E", "addr_F", "addr_G">>

BatchOf(amounts) ==
    [i \in 1..Len(amounts) |->
        [id |-> i, Bech32 |-> BatchAddrs[i], BaseTokenAmount |-> amounts[i]]]

InitBatch ==
    \E n \in 0..MaxInputs, amount \in {2, 8}, k \in 0..MaxBatch, cap \in QueueCaps :
    \E amounts \in [1..k -> {1, 2}] :
       LET outputs == {[OutputID |-> <<0, i>>, Amount |-> amount] : i \in 0..(n - 1)}
           requests == BatchOf(amounts)
           initial == collectUnlockableFaucetOutputsAndBalance(outputs, <<>>)
       IN /\ SumAmounts(requests) <= initial
          /\ opts = DefaultOptions
          /\ capacity = cap
          /\ faucetBalance = initial - SumAmounts(requests)
          /\ queue = <<>>
          /\ queueMap = [a \in AddrsOf(requests) |->
                            requests[CHOOSE i \in 1..k : requests[i].Bech32 = a]]
          /\ pendingTransaction = NoPending
          /\ pc = [c \in Clients |-> "idle"]
          /\ call = [c \in Clients |-> NoCall]
          /\ response = NoResponse
          /\ raced = [c \in Clients |-> FALSE]
          /\ pcB = "process"
          /\ batchedRequests = requests
          /\ snapA = 0
          /\ decA = "keep"
          /\ pcS = "idle"
          /\ update = NoUpdate
          /\ snapS = 0
          /\ decS = "keep"
          /\ ledgerUpdates = <<>>
          /\ unspentOutputs = outputs
          /\ txs = <<>>
          /\ cancelled = FALSE
          /\ nextReq = k + 1
          /\ fate = [i \in 1..k |-> "live"]
          /\ applied = <<>>
          /\ misapplied = FALSE
          /\ lastRead = SumOutputs(outputs)
          /\ flushed = NoFlush

NextBatch ==
    \E r \in Outcomes, h \in BOOLEAN, s \in SubmitOutcomes : BatcherProcess(r, h, s)

SpecBatch == InitBatch /\ [][NextBatch]_vars

\* ------------------------------------------------- assembly specification
\* createTransactionBuilder on its own, for every set of up to MaxInputs
\* unspent outputs and every batch of up to MaxBatch requests, whether the
\* filter would accept the batch or not.
InitAssemble ==
    \E n \in 0..MaxInputs, amount \in {1, 2}, k \in 0..MaxBatch :
    \E amounts \in [1..k -> 1..MaxAmount] :
       LET outputs == {[OutputID |-> <<0, i>>, Amount |-> amount] : i \in 0..(n - 1)}
           requests == BatchOf(amounts)
       IN /\ opts = DefaultOptions
          /\ capacity = MaxBatch
          /\ faucetBalance = 0
          /\ queue = <<>>
          /\ queueMap = [a \in AddrsOf(requests) |->
                            requests[CHOOSE i \in 1..k : requests[i].Bech32 = a]]
          /\ pendingTransaction = NoPending
          /\ pc = [c \in Clients |-> "idle"]
          /\ call = [c \in Clients |-> NoCall]
          /\ response = NoResponse
          /\ raced = [c \in Clients |-> FALSE]
          /\ pcB = "process"
          /\ batchedRequests = requests
          /\ snapA = 0
          /\ decA = "keep"
          /\ pcS = "idle"
          /\ update = NoUpdate
          /\ snapS = 0
          /\ decS = "keep"
          /\ ledgerUpdates = <<>>
          /\ unspentOutputs = outputs
          /\ txs = <<>>
          /\ cancelled = FALSE
          /\ nextReq = k + 1
          /\ fate = [i \in 1..k |-> "live"]
          /\ applied = <<>>
          /\ misapplied = FALSE
          /\ lastRead = SumOutputs(outputs)
          /\ flushed = NoFlush

\* createTransactionBuilder(unspentOutputs, batchedRequests): the transaction
\* it builds is recorded, nothing else changes.
Assemble ==
    /\ response' = NoResponse
    /\ pcB = "process"
    /\ LET tx == createTransactionBuilder(unspentOutputs, batchedRequests)
       IN txs' = Append(txs, [inputs |-> tx.consumedInputs, outputs |-> tx.outputs,
                              state |-> "inflight", armed |-> FALSE])
    /\ applied' = Append(applied, 0)
    /\ pcB' = "loop"
    /\ UNCHANGED <<opts, capacity, coreVars, clientVars, batchedRequests, snapA, decA,
                   sourceBVars, ledgerUpdates, unspentOutputs, cancelled, nextReq,
                   fate, misapplied, lastRead, flushed>>

NextAssemble == Assemble

SpecAssemble == InitAssemble /\ [][NextAssemble]_vars

\* ------------------------------------------------ collection specification
\* collectRequests on a FIFO deeper than a batch: the projection was computed
\* on one unspent output, up to MaxFifo requests were admitted against it,
\* the slot is null and the Batcher starts to collect.
InitCollect ==
    \E k \in 0..MaxFifo : \E amounts \in [1..k -> {1, 2}] :
       LET outputs == {[OutputID |-> <<0, 0>>, Amount |-> 2 * MaxFifo + 1]}
           requests == BatchOf(amounts)
           initial == collectUnlockableFaucetOutputsAndBalance(outputs, <<>>)
       IN /\ opts = DefaultOptions
          /\ capacity = MaxFifo
          /\ faucetBalance = initial - SumAmounts(requests)
          /\ queue = requests
          /\ queueMap = [a \in AddrsOf(requests) |->
                            requests[CHOOSE i \in 1..k : requests[i].Bech32 = a]]
          /\ pendingTransaction = NoPending
          /\ pc = [c \in Clients |-> "idle"]
          /\ call = [c \in Clients |-> NoCall]
          /\ response = NoResponse
          /\ raced = [c \in Clients |-> FALSE]
          /\ pcB = "collect"
          /\ batchedRequests = <<>>
          /\ snapA = 0
          /\ decA = "keep"
          /\ pcS = "idle"
          /\ update = NoUpdate
          /\ snapS = 0
          /\ decS = "keep"
          /\ ledgerUpdates = <<>>
          /\ unspentOutputs = outputs
          /\ txs = <<>>
          /\ cancelled = FALSE
          /\ nextReq = k + 1
          /\ fate = [i \in 1..k |-> "live"]
          /\ applied = <<>>
          /\ misapplied = FALSE
          /\ lastRead = SumOutputs(outputs)
          /\ flushed = NoFlush

NextCollect ==
    \/ CollectAbort
    \/ CollectTimeout
    \/ CollectReceive
    \/ FlushRequests
    \/ CollectDrain

SpecCollect == InitCollect /\ [][NextCollect]_vars

\* --------------------------------------------------- scenario specification
\* The faucet with the amounts of defaultOptions (lines 167-176) and a single
\* unspent output of 100_000_000: Enqueue against the initial projection, the
\* node answering a target balance below the standard amount, between the
\* standard amount and the maximum, or above the maximum.
ScenarioOptions ==
    [baseTokenAmount |-> 10000000, baseTokenAmountSmall |-> 1000000,
     baseTokenAmountMaxTarget |-> 20000000]

ScenarioOutputs == {[OutputID |-> <<0, 0>>, Amount |-> 100000000]}

ScenarioQueries ==
    {[err |-> TRUE, balance |-> 0]} \cup
    {[err |-> FALSE, balance |-> b] : b \in {0, 15000000, 25000000}}

InitScenario ==
    \E cap \in QueueCaps : InitWith(ScenarioOptions, cap, ScenarioOutputs)

NextScenario ==
    \/ \E c \in Clients, a \in Addrs \cup {BadAddr}, h \in BOOLEAN,
          q \in ScenarioQueries : EnqueueCheck(c, a, h, q)
    \/ \E c \in Clients : EnqueueCommit(c)
    \/ \E r \in {"ok", "critical"} : BatcherInit(r)

SpecScenario == InitScenario /\ [][NextScenario]_vars

\* ---------------------------------------------------- tiering specification
\* Every configuration of the three amounts the option setters accept (they
\* validate nothing), up to MaxAmount.
Configurations ==
    {[baseTokenAmount |-> s, baseTokenAmountSmall |-> m, baseTokenAmountMaxTarget |-> t] :
        s \in 1..MaxAmount, m \in 1..MaxAmount, t \in 1..MaxAmount}

InitTier ==
    \E o \in Configurations, outputs \in InitialOutputSets : InitWith(o, 1, outputs)

\* Enqueue against a faucet whose balance was computed, under any configuration.
NextTier ==
    \/ \E c \in Clients, a \in Addrs \cup {BadAddr}, h \in BOOLEAN,
          q \in BalanceQueries(opts) : EnqueueCheck(c, a, h, q)
    \/ \E c \in Clients : EnqueueCommit(c)
    \/ \E r \in {"ok", "critical"} : BatcherInit(r)

SpecTier == InitTier /\ [][NextTier]_vars

\* ================================================================ properties
\* A step that ends a critical section of the write lock: the commit of
\* Enqueue, the locked part of the Batcher's iteration, the locked part of a
\* resolver.
WriteLockReleased ==
    \/ \E c \in Clients : pc[c] = "commit" /\ pc'[c] = "idle"
    \/ pcB \in {"process", "applyA"} /\ pcB' # pcB
    \/ pcS = "applyS" /\ pcS' = "idle"

\* The requests Enqueue admitted so far, by identity.
Admitted == 1 .. (nextReq - 1)

\* How often the request with identity i occurs in a sequence of queueItems.
Occurrences(s, i) == Cardinality({k \in 1..Len(s) : s[k].id = i})

\* ----------------------------------------------------------------------- C1
\* C1: of two Enqueue calls for the same address that overlap (the index check
\* of each precedes the commit of the other) at most one returns success, and
\* the FIFO never holds two requests for the same address.
C1_AtMostOneConcurrentSuccess ==
    /\ ~(response.status = "ok" /\ response.raced)
    /\ \A i, j \in 1..Len(queue) : i # j => queue[i].Bech32 # queue[j].Bech32

\* ----------------------------------------------------------------------- C2
\* Where the spec's I4 looks for a live request: the FIFO and the pending batch.
PlacesI4(i) ==
    Occurrences(queue, i) + Occurrences(pendingTransaction.QueuedItems, i)

\* Where the code keeps a live request: the FIFO, the slice collectRequests
\* fills (batchedRequests) and the pending batch.
Places(i) == PlacesI4(i) + Occurrences(batchedRequests, i)

\* C2, as stated: after every critical section each admitted request is in the
\* FIFO or in the pending batch, or was resolved by exactly one of success
\* clear, filter drop, readd failure.
C2_NoLostRequestsAsStated ==
    [][WriteLockReleased =>
          \A i \in Admitted' :
             \/ fate'[i] = "live" /\ PlacesI4(i)' = 1
             \/ fate'[i] \in {"settled", "dropped", "readdFailed"} /\ PlacesI4(i)' = 0]_vars

\* C2, amended: in every reachable state each admitted request is in exactly
\* one of the FIFO, the Batcher's collected batch and the pending batch, or it
\* is in none of them and reached exactly one terminal outcome: success clear,
\* filter drop, readd failure, or abandonment by a Batcher that stops (shutdown
\* seen while collecting, critical error while processing).
C2_NoLostRequests ==
    \A i \in Admitted :
       \/ fate[i] = "live" /\ Places(i) = 1
       \/ fate[i] \in {"settled", "dropped", "readdFailed", "abandoned"} /\ Places(i) = 0

\* C2 witness: one request was resolved by a failed readd while another is in
\* the Batcher's hands, in neither the FIFO nor the pending batch.
C2_Witness ==
    \E i, j \in Admitted :
       /\ fate[i] = "readdFailed"
       /\ fate[j] = "live"
       /\ Occurrences(batchedRequests, j) = 1

\* ----------------------------------------------------------------------- C3
\* The step is a successful return of Enqueue: a request was admitted.
EnqueueSucceeds == nextReq' = nextReq + 1

\* The amounts committed to the requests of the pending batch; a batch whose
\* transaction the ledger has accepted already is paid, and counts as nothing.
PendingCommitted(p, t) ==
    IF p = NoPending \/ t[p.TransactionID].state = "accepted"
    THEN 0 ELSE SumAmounts(p.QueuedItems)

\* C3: whenever Enqueue succeeds, the amounts of the queued requests (the new
\* one among them) plus the amounts of the pending batch are at most the sum
\* of the unspent outputs minus the reserved storage deposit.
C3_AdmissionNeverOverCommits ==
    [][EnqueueSucceeds =>
          SumAmounts(queue') + PendingCommitted(pendingTransaction', txs')
             <= SumOutputs(unspentOutputs') - minStorageDeposit]_vars

\* ----------------------------------------------------------------------- C4
\* The faucet's unspent outputs are those it started with: the ledger has
\* accepted no transaction, so they have lost no value since any admission.
UnspentOutputsUntouched == \A t \in DOMAIN txs : txs[t].state # "accepted"

\* C4: while the faucet's unspent outputs have lost no value, no admitted
\* request is dropped by the filter for insufficient funds.
C4_NoDropWithoutLoss ==
    UnspentOutputsUntouched => \A i \in Admitted : fate[i] # "dropped"

\* ----------------------------------------------------------------------- C5
\* C5: whatever the interleaving of the metadata poll and the ledger-update
\* handler, each Pending Transaction instance has at most one terminal
\* decision (clear or readd) applied to it, exactly one once it has left the
\* slot, and no decision is applied to an instance other than the one it was
\* taken for, or to an empty slot.
C5_OneTerminalDecision ==
    /\ ~misapplied
    /\ \A t \in DOMAIN applied :
          applied[t] = (IF pendingTransaction.TransactionID = t \/ ~txs[t].armed
                        THEN 0 ELSE 1)

\* C5 witness: the slot was resolved by one of the two resolvers while the
\* other, which took its snapshot of that same instance before, still holds a
\* terminal decision for it and is about to enter its locked part.
C5_Witness ==
    /\ pendingTransaction = NoPending
    /\ \E t \in DOMAIN applied :
          /\ applied[t] = 1
          /\ \/ pcS = "applyS" /\ snapS = t /\ decS # "keep"
             \/ pcB = "applyA" /\ snapA = t /\ decA # "keep"

\* ----------------------------------------------------------------------- C6
\* C6: the pending slot is armed only when it is null, so an armed Pending
\* Transaction is never overwritten; a transaction is submitted only while
\* the slot is null; and from the Batcher's snapshot of a null slot to the
\* end of its critical section (while it collects and processes) the slot
\* stays null, no other task arming it.
C6_SingleInFlight ==
    [][/\ (pendingTransaction' # pendingTransaction /\ pendingTransaction' # NoPending)
             => pendingTransaction = NoPending
       /\ Len(txs') > Len(txs) => pendingTransaction = NoPending
       /\ pcB' \in {"collect", "drain", "process"} => pendingTransaction' = NoPending]_vars

\* C6 witness: the slot is armed and the Batcher, with a request waiting in
\* the FIFO, found the slot non-null and skips the iteration.
C6_Witness ==
    /\ pendingTransaction # NoPending
    /\ pcB = "cooldown"
    /\ queue # <<>>

\* ----------------------------------------------------------------------- C7
\* C7: after every critical section the keys of the address-index are exactly
\* the addresses of the requests in the FIFO and in the pending batch.  The
\* formula asks for it only where the Batcher holds no collected request and
\* the faucet is not stopping.
C7_QueueUniqueness ==
    [][(/\ WriteLockReleased
        /\ batchedRequests' = <<>>
        /\ ~cancelled'
        /\ pcB' \notin {"done", "panic"})
          => DOMAIN queueMap' =
                AddrsOf(queue') \cup AddrsOf(pendingTransaction'.QueuedItems)]_vars

\* ----------------------------------------------------------------------- C8
\* max(0, a)
Floor0(a) == IF a < 0 THEN 0 ELSE a

\* computeAndSetInitialFaucetBalance or the Batcher's critical section has
\* computed and stored the projection (lastRead is what it read then).
ProjectionComputed == lastRead > 0

\* C8, as stated: once the projection was computed, at every point where no
\* task is inside a critical section (and, here, the Batcher holds no
\* collected request and the faucet is not stopping) the stored projection equals max(0, sum(unspent) -
\* reserved storage deposit - sum(queued amounts) - sum(pending-batch amounts)).
C8_BalanceConservationAsStated ==
    (/\ ProjectionComputed
     /\ batchedRequests = <<>>
     /\ ~cancelled
     /\ pcB \notin {"done", "panic"})
       => faucetBalance =
             Floor0(SumOutputs(unspentOutputs) - minStorageDeposit
                    - SumAmounts(queue) - SumAmounts(pendingTransaction.QueuedItems))

\* C8, amended: the stored projection is never negative and, once computed,
\* never exceeds max(0, sum of the unspent outputs as the faucet last read
\* them - reserved storage deposit - sum of the amounts in the address-index).
C8_BalanceConservation ==
    /\ faucetBalance >= 0
    /\ ProjectionComputed =>
          faucetBalance <= Floor0(lastRead - minStorageDeposit - SumMap(queueMap))

\* C8 witness: a request was paid and cleared from the index, another was
\* admitted, and the stored projection is strictly below the bound because
\* nothing has recomputed it since.
C8_Witness ==
    /\ \E i \in Admitted : fate[i] = "settled"
    /\ queue # <<>>
    /\ faucetBalance < Floor0(lastRead - minStorageDeposit - SumMap(queueMap))

\* ----------------------------------------------------------------------- C9
\* The call reaches the balance query: the address parses, the node is
\* healthy and the address is not in the index.
ReachesTiering(a, h) ==
    a # BadAddr /\ h /\ ~isAlreadyinQueue(queueMap, a)

\* The outcome the step gives client c is the one the claim prescribes for the
\* balance query q under the configuration opts.
TierAsClaimed(c, q) ==
    IF ~q.err /\ q.balance >= opts.baseTokenAmountMaxTarget
    THEN /\ response'.status = "ErrEnoughFunds"
         /\ ErrorKind(response'.status) = "InvalidParameter"
         /\ pc'[c] = "idle"
    ELSE IF ~q.err /\ q.balance >= opts.baseTokenAmount
    THEN pc'[c] = "commit" /\ call'[c].BaseTokenAmount = opts.baseTokenAmountSmall
    ELSE pc'[c] = "commit" /\ call'[c].BaseTokenAmount = opts.baseTokenAmount

\* C9: under every configuration and for every target balance b, a successful
\* balance query gives: b >= max_target -> rejected with InvalidParameter;
\* otherwise b >= standard_amount -> small_amount is chosen; otherwise
\* standard_amount; a failed query chooses standard_amount.
C9_AdmissionTiering ==
    [][\A c \in Clients, a \in Addrs, h \in BOOLEAN, q \in BalanceQueries(opts) :
          (ReachesTiering(a, h) /\ EnqueueCheck(c, a, h, q)) => TierAsClaimed(c, q)]_vars

\* ---------------------------------------------------------------------- C10
\* The step rejects the call of client c for address a as already in queue,
\* and admits nothing.
RejectedAsQueued(c, a) ==
    /\ response' = Failure(a, "ErrAlreadyInQueue")
    /\ ErrorKind(response'.status) = "InvalidParameter"
    /\ pc'[c] = "idle"
    /\ nextReq' = nextReq

\* In this step a request for address a that the Batcher or the pending slot
\* held was cleared after success, dropped by the filter, or failed to readd.
ResolvedInStep(a) ==
    \E r \in {batchedRequests[k] : k \in 1..Len(batchedRequests)} \cup
             {pendingTransaction.QueuedItems[k] :
                 k \in 1..Len(pendingTransaction.QueuedItems)} :
       /\ r.Bech32 = a
       /\ fate[r.id] = "live"
       /\ fate'[r.id] \in {"settled", "dropped", "readdFailed"}

\* C10, as stated: an Enqueue of an address that is in the address-index
\* fails with InvalidParameter ("already in queue"), whatever else holds.
C10_RejectsQueuedAddressAsStated ==
    [][\A c \in Clients, a \in Addrs, h \in BOOLEAN, q \in BalanceQueries(opts) :
          (a \in DOMAIN queueMap /\ EnqueueCheck(c, a, h, q))
             => RejectedAsQueued(c, a)]_vars

\* C10, amended: on a healthy node an Enqueue of an address that is in the
\* address-index at the read-locked check fails with InvalidParameter
\* ("already in queue") and admits nothing; and an address leaves the index
\* only in a step that clears, drops or fails to readd a request for it.
C10_RejectsQueuedAddress ==
    [][/\ \A c \in Clients, a \in Addrs, q \in BalanceQueries(opts) :
             (a \in DOMAIN queueMap /\ EnqueueCheck(c, a, TRUE, q))
                => RejectedAsQueued(c, a)
       /\ \A a \in DOMAIN queueMap \ DOMAIN queueMap' : ResolvedInStep(a)]_vars

\* C10 witness: a call was just rejected as already in queue while the
\* request of its address is in the Batcher's collected batch.
C10_Witness ==
    /\ response.status = "ErrAlreadyInQueue"
    /\ response.Bech32 \in DOMAIN queueMap
    /\ response.Bech32 \in AddrsOf(batchedRequests)

\* ---------------------------------------------------------------------- C11
\* The step returns an error to a caller of Enqueue.
EnqueueFails == response'.status \notin {"none", "ok"}

\* C11: every failing Enqueue (bad address, unhealthy node, duplicate
\* address, enough funds already, commit > projection, channel full) leaves
\* the FIFO, the address-index, the projection and the pending slot
\* unchanged and admits nothing; a commit fails for funds exactly when its
\* amount exceeds the projection and for a full channel exactly when the
\* funds suffice and the channel is at capacity, both reported with the
\* server-side error kind; a commit equal to the projection, with room in
\* the channel, is admitted.
C11_FailingEnqueueChangesNothing ==
    [][/\ EnqueueFails => (UNCHANGED coreVars /\ nextReq' = nextReq /\ fate' = fate)
       /\ \A c \in Clients :
             (pc[c] = "commit" /\ pc'[c] = "idle") =>
                LET amount == call[c].BaseTokenAmount IN
                /\ (response'.status = "ErrNoFunds") = (amount > faucetBalance)
                /\ (response'.status = "ErrQueueFull") =
                      (amount <= faucetBalance /\ Len(queue) >= capacity)
                /\ response'.status \in {"ErrNoFunds", "ErrQueueFull"} =>
                      ErrorKind(response'.status) = "InternalServerError"
                /\ (amount = faucetBalance /\ Len(queue) < capacity) =>
                      (response'.status = "ok" /\ faucetBalance' = 0)]_vars

\* C11 witness: a commit was just refused because the channel is at capacity
\* although the projection would have covered it.
C11_Witness ==
    /\ response.status = "ErrQueueFull"
    /\ Len(queue) = capacity
    /\ faucetBalance > 0

\* ---------------------------------------------------------------------- C12
\* The step is the locked part of a resolver (Source A, lines 969-991, or
\* Source B, lines 1052-1070) that finds the slot armed and applies decision d
\* to it: the decision taken from the snapshot if the slot still holds the
\* snapshotted transaction, the one retaken from the slot otherwise.
ResolvedAs(d) ==
    /\ pendingTransaction # NoPending
    /\ \/ /\ pcB = "applyA" /\ pcB' = "loop"
          /\ snapA = pendingTransaction.TransactionID
          /\ decA = d
       \/ /\ pcS = "applyS" /\ pcS' = "idle"
          /\ d = IF snapS = pendingTransaction.TransactionID
                 THEN decS
                 ELSE checkPendingTransactionB(pendingTransaction, update)

\* C12: resolving an armed pending transaction as accepted (clear) nulls the
\* slot, removes the address of every batched item from the address-index,
\* removes no other address, and leaves the FIFO as it was: no batched item
\* returns to it.
C12_ClearForgetsBatch ==
    [][ResolvedAs("clear") =>
          /\ pendingTransaction' = NoPending
          /\ queue' = queue
          /\ DOMAIN queueMap' = DOMAIN queueMap \ AddrsOf(pendingTransaction.QueuedItems)
          /\ \A a \in DOMAIN queueMap' : queueMap'[a] = queueMap[a]
          /\ faucetBalance' = faucetBalance]_vars

\* C12 witness: a transaction that paid a request was armed and then cleared,
\* no other request was admitted meanwhile, and FIFO and index are empty.
C12_Witness ==
    /\ pendingTransaction = NoPending
    /\ nextReq = 2
    /\ fate[1] = "settled"
    /\ queue = <<>>
    /\ queueMap = <<>>

\* ---------------------------------------------------------------------- C13
\* The items of the pending transaction the channel has room for, and the
\* rest: the sends happen in batch order and nothing receives meanwhile (the
\* only receiver, the Batcher, does not collect while the slot is armed).
ReaddRoom == Min(Len(pendingTransaction.QueuedItems), capacity - Len(queue))

\* C13: resolving an armed pending transaction as failed (readd) nulls the
\* slot and appends the batched items to the FIFO in the order of the batch,
\* as far as the channel has room; every item that finds the channel full is
\* removed from the address-index, and no other address is.
C13_ReaddKeepsBatchOrder ==
    [][ResolvedAs("readd") =>
          LET items == pendingTransaction.QueuedItems
              lost == {items[j].Bech32 : j \in (ReaddRoom + 1) .. Len(items)}
          IN /\ pendingTransaction' = NoPending
             /\ queue' = queue \o SubSeq(items, 1, ReaddRoom)
             /\ DOMAIN queueMap' = DOMAIN queueMap \ lost
             /\ \A a \in DOMAIN queueMap' : queueMap'[a] = queueMap[a]
             /\ faucetBalance' = faucetBalance]_vars

\* C13 witness: a readd has returned one batched item to the FIFO and lost
\* another to a full channel.
C13_Witness ==
    /\ pendingTransaction = NoPending
    /\ \E i, j \in Admitted :
          /\ fate[i] = "live" /\ fate[j] = "readdFailed"
          /\ \E k \in 1..Len(queue) : queue[k].id = i
          /\ \E t \in DOMAIN txs : \E n \in 1..Len(txs[t].outputs) :
                txs[t].outputs[n].item = i

\* ---------------------------------------------------------------------- C14
\* Source B takes a second delivery of a ledger update from the stream.
SecondDelivery ==
    /\ pcS = "idle"
    /\ ledgerUpdates # <<>>
    /\ Head(ledgerUpdates).repeat
    /\ ledgerUpdates' = Tail(ledgerUpdates)

\* C14: the second of two consecutive deliveries of a ledger update is a
\* no-op: Source B decides to keep, does not enter its locked part, and FIFO,
\* address-index, projection and pending slot stay as the first delivery left
\* them.
C14_LedgerUpdateIdempotent ==
    [][SecondDelivery => (pcS' = "idle" /\ UNCHANGED coreVars /\ fate' = fate
                          /\ applied' = applied)]_vars

\* C14 witness: the first delivery of the update creating output 0 of the
\* pending transaction has cleared the slot and settled its request; the
\* second delivery is next on the stream.
C14_Witness ==
    /\ pcS = "idle"
    /\ ledgerUpdates # <<>>
    /\ Head(ledgerUpdates).repeat
    /\ \E t \in DOMAIN txs :
          /\ <<t, 0>> \in Head(ledgerUpdates).created
          /\ applied[t] = 1
          /\ txs[t].state = "accepted"
    /\ pendingTransaction = NoPending
    /\ \E i \in Admitted : fate[i] = "settled"
    /\ pcB = "loop"

\* ---------------------------------------------------------------------- C15
\* The outputs of submitted transaction t that pay a request.
RequestOutputs(t) ==
    {n \in 1..Len(txs[t].outputs) : txs[t].outputs[n].Address # FaucetAddress}

\* C15: every submitted transaction has at most MaxOutputsCount - 1 request
\* outputs and at most MaxOutputsCount outputs in all, the remainder
\* included, whatever the batch and the number of unspent inputs.  The
\* builder is in fact stricter: it counts the inputs too and stops one
\* early, so the request outputs number at most MaxOutputsCount - 2 minus
\* the inputs.
C15_OutputsWithinLimit ==
    \A t \in DOMAIN txs :
       /\ Cardinality(RequestOutputs(t)) <= MaxOutputsCount - 1
       /\ Len(txs[t].outputs) <= MaxOutputsCount
       /\ Cardinality(RequestOutputs(t)) <=
             Floor0(MaxOutputsCount - 2 - Cardinality(txs[t].inputs))

\* C15 witness: a transaction was submitted for a batch the output limit cut
\* short; it carries a request output and the remainder.
C15_Witness ==
    \E t \in DOMAIN txs :
       /\ pendingTransaction.TransactionID = t
       /\ Len(pendingTransaction.QueuedItems) > Cardinality(RequestOutputs(t))
       /\ Cardinality(RequestOutputs(t)) > 0
       /\ Len(txs[t].outputs) = Cardinality(RequestOutputs(t)) + 1
       /\ Len(queue) > 0

\* ---------------------------------------------------------------------- C16
\* C16: when the Batcher enters its locked part with an empty batch and the
\* faucet has fewer than two unspent outputs, the iteration submits no
\* transaction, leaves the pending slot null and leaves FIFO and
\* address-index as they are, whatever the node answers.
C16_NoSelfSweep ==
    [][(/\ pcB = "process" /\ pcB' # "process"
        /\ batchedRequests = <<>>
        /\ Cardinality(unspentOutputs) < 2) =>
          /\ txs' = txs
          /\ pendingTransaction' = NoPending
          /\ queue' = queue
          /\ queueMap' = queueMap]_vars

\* C16 witness: the only request was paid and settled, the faucet is left
\* with the single remainder output, and a later iteration with an empty
\* batch has read that output (lastRead) and submitted nothing.
C16_Witness ==
    /\ pcB = "loop"
    /\ pendingTransaction = NoPending
    /\ Len(txs) = 1 /\ txs[1].state = "accepted"
    /\ nextReq = 2 /\ fate[1] = "settled"
    /\ Cardinality(unspentOutputs) = 1
    /\ \A o \in unspentOutputs : o.OutputID[1] = 1
    /\ lastRead = SumOutputs(unspentOutputs)

\* ---------------------------------------------------------------------- C17
\* Request i has an output in a submitted transaction.
Included(i) ==
    \E t \in DOMAIN txs : \E n \in 1..Len(txs[t].outputs) : txs[t].outputs[n].item = i

\* Request i waits in the FIFO.
Waiting(i) == \E k \in 1..Len(queue) : queue[k].id = i

BatcherReadsSlot == pcB = "cooldown" /\ pcB' # "cooldown"

\* C18: lock discipline: every read of the pending slot happens under the
\* lock, so no writer runs between the Batcher's snapshot of the slot and its
\* later reads of it: the slot it reads for its message is the armed slot it
\* snapshotted, and the read never dereferences nil.
C18_LockDiscipline ==
    [][BatcherReadsSlot => (pendingTransaction # NoPending /\ pcB' # "panic")]_vars

\* ---------------------------------------------------------------------- C19
\* The step hands a transaction to the node successfully.
Submitted == Len(txs') > Len(txs)

\* C19: submission and arming are one critical section: the step that
\* submits a transaction successfully ends, when the write lock is released,
\* with the pending slot holding that transaction.
C19_SubmitArmsSlot ==
    [][Submitted => pendingTransaction'.TransactionID = Len(txs')]_vars

\* ---------------------------------------------------------------------- C20
\* The step admits addr_A, with the standard amount, into the empty queue of
\* the scenario faucet.
AdmitsFirst ==
    /\ nextReq = 1 /\ nextReq' = 2
    /\ queue = <<>> /\ queueMap = <<>>
    /\ \E c \in Clients :
          /\ pc[c] = "commit" /\ pc'[c] = "idle"
          /\ call[c] = [Bech32 |-> "addr_A",
                        BaseTokenAmount |-> ScenarioOptions.baseTokenAmount]

\* C20 as stated: in scenario 1 the admission of addr_A returns {addr_A, 1}
\* and the projection drops to 89_999_999 minus the reserved storage deposit.
C20_ScenarioOneAsStated ==
    [][AdmitsFirst =>
          /\ response'.Bech32 = "addr_A" /\ response'.waiting = 1
          /\ faucetBalance' = 89999999 - minStorageDeposit]_vars

\* C20: in scenario 1 the admission of addr_A returns {addr_A, 1} and the
\* projection drops from 100_000_000 minus the reserved storage deposit by
\* the standard amount, to 90_000_000 minus the reserved storage deposit.
C20_ScenarioOne ==
    [][AdmitsFirst =>
          /\ response' = [Bech32 |-> "addr_A", status |-> "ok", waiting |-> 1,
                          raced |-> FALSE]
          /\ faucetBalance = 100000000 - minStorageDeposit
          /\ faucetBalance' = 90000000 - minStorageDeposit]_vars

\* C20 witness: addr_A was admitted first with the standard amount and the
\* response {addr_A, 1} has just been returned.
C20_Witness ==
    /\ opts = ScenarioOptions
    /\ response = [Bech32 |-> "addr_A", status |-> "ok", waiting |-> 1, raced |-> FALSE]
    /\ nextReq = 2
    /\ queue = <<[id |-> 1, Bech32 |-> "addr_A", BaseTokenAmount |-> 10000000]>>
    /\ faucetBalance = 90000000 - minStorageDeposit

\* ---------------------------------------------------------------------- C21
\* What the batch must begin with once a flushed collection ends: the batch
\* collected before the flush, then the FIFO as it was at the flush, cut at
\* MaxOutputsCount items.
FlushedBatch ==
    LET want == flushed.batch \o flushed.fifo
    IN SubSeq(want, 1, Min(Len(want), MaxOutputsCount))

\* C21: a flush token is taken by a collection in progress and by that one
\* only; from then on the collection receives without waiting and goes on to
\* its locked part, never to the timeout; and the batch it ends with begins
\* with every request that was in the FIFO at the flush, in FIFO order, up
\* to MaxOutputsCount items in the batch.
C21_FlushEndsBatch ==
    [][/\ (flushed'.on /\ flushed' # flushed) =>
             (pcB = "collect" /\ pcB' = "drain" /\ ~flushed.on
              /\ flushed'.fifo = queue /\ flushed'.batch = batchedRequests)
       /\ pcB = "drain" => (flushed.on /\ pcB' \in {"drain", "process"})
       /\ (pcB = "drain" /\ pcB' = "process") =>
             /\ batchedRequests' = batchedRequests
             /\ Len(batchedRequests) <= MaxOutputsCount
             /\ Len(batchedRequests) >= Len(FlushedBatch)
             /\ SubSeq(batchedRequests, 1, Len(FlushedBatch)) = FlushedBatch
             /\ (queue = <<>> \/ Len(batchedRequests) = MaxOutputsCount)]_vars

\* C21 witness: a collection that had received one request was flushed with
\* more requests in the FIFO than the batch has room for; it ended with a
\* full batch and the rest still in the FIFO.
C21_Witness ==
    /\ pcB = "process"
    /\ flushed.on
    /\ Len(flushed.batch) = 1
    /\ Len(flushed.fifo) >= MaxOutputsCount
    /\ batchedRequests = FlushedBatch
    /\ Len(batchedRequests) = MaxOutputsCount
    /\ queue # <<>>

\* ---------------------------------------------------------------------- C22
\* The metadata poll has returned, for the armed slot, an error, nil, or a
\* state other than Pending: checkPendingTransactionState is past its early
\* return with a decision to apply.
PollDecided == pcB = "applyA"

\* C22: when the metadata poll returns an error, nil or a state other than
\* Pending for the armed slot, the slot eventually becomes null and the
\* Batcher eventually starts to collect a new batch, in every behaviour in
\* which the loop is scheduled fairly and does not see the shutdown signal.
C22_PendingSlotLiveness ==
    \/ <>cancelled
    \/ /\ PollDecided ~> (pendingTransaction = NoPending)
       /\ PollDecided ~> (pcB = "collect")

\* C22 witness: the poll resolved the pending transaction while it was still
\* in flight, and the Batcher collects again.
C22_Witness ==
    /\ pcB = "collect"
    /\ ~cancelled
    /\ pendingTransaction = NoPending
    /\ \E t \in DOMAIN txs :
          txs[t].armed /\ txs[t].state = "inflight" /\ applied[t] = 1

\* ---------------------------------------------------------------------- C23
\* RunFaucetLoop ends in this step other than by returning nil: it returns
\* the critical error of its iteration, or the goroutine panics.
EndsWithError ==
    \/ pcB = "process" /\ pcB' = "done"
    \/ pcB # "panic" /\ pcB' = "panic"

\* C23: once the cancellation signal is raised with the Batcher in the
\* pending cooldown, in batch collection or between iterations, the loop
\* ends by returning nil only: it neither returns an error nor panics.
C23_ShutdownReturnsNil ==
    [][cancelled => ~EndsWithError]_vars

\* ---------------------------------------------------------------------- C24
\* The decision of the poll as the specification tabulates it.
PollTable(metadata) ==
    CASE metadata \in {"error", "nil", "Unknown", "Failed"} -> "readd"
      [] metadata \in {"Accepted", "Committed", "Finalized"} -> "clear"
      [] OTHER -> "keep"

\* The poll decides on metadata in this step, before it takes the write lock.
PollDecides(metadata) == pcB = "loop" /\ SourceACheck(metadata)

\* The poll applies its decision under the write lock in this step.
PollApplies == pcB = "applyA" /\ pcB' = "loop"

\* C24: the decision table of the poll.  With a null slot the poll changes
\* nothing.  For an armed slot a fetch error, nil metadata, Unknown and Failed
\* are each applied as readd (slot null, the batched items back in the FIFO
\* as far as it has room), Accepted, Committed and Finalized as clear (slot
\* null, the items out of the address-index, the FIFO untouched), and Pending
\* leaves slot, FIFO and address-index unchanged.
C24_PollDecisionTable ==
    [][/\ \A m \in Metadata :
            PollDecides(m) =>
               /\ UNCHANGED <<queue, queueMap, pendingTransaction>>
               /\ IF pendingTransaction = NoPending \/ PollTable(m) = "keep"
                  THEN pcB' = "loop"
                  ELSE /\ pcB' = "applyA"
                       /\ decA' = PollTable(m)
                       /\ snapA' = pendingTransaction.TransactionID
       /\ PollApplies =>
            LET items == pendingTransaction.QueuedItems
            IN IF pendingTransaction = NoPending
               THEN UNCHANGED <<queue, queueMap, pendingTransaction>>
               ELSE /\ pendingTransaction' = NoPending
                    /\ decA = "clear" =>
                          /\ queue' = queue
                          /\ DOMAIN queueMap' = DOMAIN queueMap \ AddrsOf(items)
                    /\ decA = "readd" =>
                          /\ queue' = queue \o SubSeq(items, 1, ReaddRoom)
                          /\ ReaddRoom = Len(items) => queueMap' = queueMap
                    /\ decA \in {"clear", "readd"}]_vars

\* C24 witness: the poll found the pending transaction failed, took the write
\* lock with the slot still armed, and is about to readd its requests.
C24_Witness ==
    /\ pcB = "applyA"
    /\ decA = "readd"
    /\ pendingTransaction # NoPending
    /\ snapA = pendingTransaction.TransactionID
    /\ txs[snapA].state = "failed"

\* ---------------------------------------------------------------------- C25
\* The decision of the ledger-update handler as the specification states it.
UpdateTable(pendingTx, u) ==
    CASE pendingTx = NoPending -> "keep"
      [] pendingTx # NoPending /\ <<pendingTx.TransactionID, 0>> \in u.created -> "clear"
      [] pendingTx # NoPending /\ <<pendingTx.TransactionID, 0>> \notin u.created
            /\ \E i \in pendingTx.ConsumedInputs : i \in u.consumed -> "readd"
      [] OTHER -> "keep"

\* The handler takes the next ledger update in this step and decides on it.
UpdateDecides ==
    pcS = "idle" /\ ledgerUpdates # <<>> /\ ledgerUpdates' = Tail(ledgerUpdates)

\* The handler applies its decision under the write lock in this step.
UpdateApplies == pcS = "applyS" /\ pcS' = "idle"

\* C25: the decision of the ledger-update handler.  For an armed slot, if
\* output 0 of the pending transaction is among the created outputs the
\* decision is clear, even when an input of the pending transaction is among
\* the consumed outputs; otherwise, if an input of the pending transaction is
\* among the consumed outputs, the decision is readd; otherwise, and with a
\* null slot, slot, FIFO and address-index are unchanged.
C25_UpdateDecisionTable ==
    [][/\ UpdateDecides =>
            LET d == UpdateTable(pendingTransaction, Head(ledgerUpdates))
            IN /\ UNCHANGED <<queue, queueMap, pendingTransaction>>
               /\ IF d = "keep"
                  THEN pcS' = "idle"
                  ELSE pcS' = "applyS" /\ decS' = d /\ update' = Head(ledgerUpdates)
       /\ UpdateApplies =>
            LET d == UpdateTable(pendingTransaction, update)
                items == pendingTransaction.QueuedItems
            IN /\ d = "keep" => UNCHANGED <<queue, queueMap, pendingTransaction>>
               /\ d = "clear" =>
                     /\ pendingTransaction' = NoPending
                     /\ queue' = queue
                     /\ DOMAIN queueMap' = DOMAIN queueMap \ AddrsOf(items)
               /\ d = "readd" =>
                     /\ pendingTransaction' = NoPending
                     /\ queue' = queue \o SubSeq(items, 1, ReaddRoom)
                     /\ ReaddRoom = Len(items) => queueMap' = queueMap]_vars

\* C25 witness: the handler has decided readd for a pending transaction whose
\* input was spent by another transaction, and holds the write lock with the
\* slot still armed.
C25_Witness ==
    /\ pcS = "applyS"
    /\ decS = "readd"
    /\ pendingTransaction # NoPending
    /\ snapS = pendingTransaction.TransactionID
    /\ <<snapS, 0>> \notin update.created
    /\ pendingTransaction.ConsumedInputs \cap update.consumed # {}

\* ---------------------------------------------------------------------- C26
\* The requests the filter accepts from the batch in hand.
Processable(healthy) ==
    FilterRequests(Cardinality(unspentOutputs),
        collectUnlockableFaucetOutputsAndBalance(unspentOutputs, queueMap),
        batchedRequests, healthy,
        [processed |-> <<>>, unprocessed |-> <<>>, dropped |-> <<>>,
         queueMap |-> queueMap]).processed

\* sendFaucetBlockWithoutLocking returns an error that is not critical in
\* this step.
SubmitFailsSoftly(healthy) ==
    /\ pcB = "process"
    /\ ~NothingToProcess(unspentOutputs, batchedRequests)
    /\ \E s \in {"soft", "unidentified"} : BatcherProcess("ok", healthy, s)

\* C26: when the submission fails with an error that is not critical, the
\* pending slot stays null, every request the filter accepted is back in the
\* FIFO, or out of the address-index if the channel was full, and the Batcher
\* goes on with its next iteration; the loop ends from the locked part of an
\* iteration only on a critical error.
C26_SoftFailureReadds ==
    [][/\ \A h \in BOOLEAN :
            SubmitFailsSoftly(h) =>
               /\ pendingTransaction = NoPending /\ pendingTransaction' = NoPending
               /\ pcB' = "loop"
               /\ \A k \in 1..Len(Processable(h)) :
                     LET r == Processable(h)[k]
                     IN \/ \E n \in 1..Len(queue') : queue'[n] = r
                        \/ /\ \A n \in 1..Len(queue') : queue'[n] # r
                           /\ r.Bech32 \notin DOMAIN queueMap'
                           /\ Len(queue') = capacity
       /\ (pcB = "process" /\ pcB' = "done") =>
            \E r \in Outcomes, h \in BOOLEAN, s \in SubmitOutcomes :
               /\ r = "critical" \/ s = "critical"
               /\ BatcherProcess(r, h, s)]_vars

\* C26 witness: a submission failed after the node took the transaction; the
\* slot is null, a request of the failed submission waits in the FIFO again
\* and the Batcher is between two iterations.
C26_Witness ==
    /\ pcB = "loop"
    /\ pendingTransaction = NoPending
    /\ \E t \in DOMAIN txs :
          /\ ~txs[t].armed
          /\ \E n \in RequestOutputs(t), k \in 1..Len(queue) :
                queue[k].id = txs[t].outputs[n].item

\* ---------------------------------------------------------------------- C27
\* The filter runs in this step and isNodeHealthyFunc answers false.
FilterUnhealthy ==
    /\ pcB = "process"
    /\ ~NothingToProcess(unspentOutputs, batchedRequests)
    /\ \E s \in SubmitOutcomes : BatcherProcess("ok", FALSE, s)

\* C27: if the node is unhealthy when the filter runs, every request of the
\* collected batch is deferred: it is back in the FIFO unless the channel is
\* full, none is dropped for insufficient funds, and each request whose
\* address was in the address-index is still there unless its own readd hit
\* a full channel.
C27_UnhealthyDefersAll ==
    [][FilterUnhealthy =>
          \A k \in 1..Len(batchedRequests) :
             LET r == batchedRequests[k]
                 back == \E n \in 1..Len(queue') : queue'[n] = r
             IN /\ fate'[r.id] # "dropped"
                /\ back \/ Len(queue') = capacity
                /\ (back /\ r.Bech32 \in DOMAIN queueMap) =>
                      r.Bech32 \in DOMAIN queueMap']_vars

\* ---------------------------------------------------------------------- C28
\* The whole collected batch is readded in this step: the projection could
\* not be computed (line 843), or the node is unhealthy and the filter defers
\* every request (line 616).
ReaddsBatch ==
    /\ pcB = "process"
    /\ \/ \E h \in BOOLEAN, s \in SubmitOutcomes : BatcherProcess("soft", h, s)
       \/ FilterUnhealthy

\* C28: readd never blocks and leaves no dangling index entry.  The step
\* completes whatever the room in the channel; the requests go to the FIFO in
\* order as far as it has room; every request that finds the channel full is
\* removed from the address-index, the ones behind the first such request
\* included, so that no address of the batch is in the address-index without
\* a request in the FIFO.
C28_ReaddNeverDangles ==
    [][ReaddsBatch =>
          LET room == Min(Len(batchedRequests), capacity - Len(queue))
          IN /\ pcB' # "process"
             /\ queue' = queue \o SubSeq(batchedRequests, 1, room)
             /\ \A k \in (room + 1)..Len(batchedRequests) :
                   batchedRequests[k].Bech32 \notin DOMAIN queueMap'
             /\ \A a \in AddrsOf(batchedRequests) :
                   a \in DOMAIN queueMap' => a \in AddrsOf(queue')]_vars

\* C28 witness: a batch was readded to a channel that had room for a part of
\* it only: the channel is full and two requests of the batch were removed
\* from the address-index.
C28_Witness ==
    /\ pcB = "loop"
    /\ txs = <<>>
    /\ Len(queue) = capacity
    /\ \E i, j \in DOMAIN fate :
          /\ i < j
          /\ fate[i] = "readdFailed" /\ fate[j] = "readdFailed"
          /\ \A n \in 1..Len(queue) : queue[n].id \notin {i, j}

\* ---------------------------------------------------------------------- C29
RECURSIVE SumOutputAmounts(_)
\* Sum of Amount over the outputs of a transaction.
SumOutputAmounts(outputs) ==
    IF outputs = <<>> THEN 0
    ELSE Head(outputs).Amount + SumOutputAmounts(Tail(outputs))

\* The outputs of transaction t that pay request i.
OutputsFor(t, i) ==
    {n \in 1..Len(txs[t].outputs) : txs[t].outputs[n].item = i}

\* The funds left when the assembly of transaction t comes to the k-th
\* request of the batch: the inputs less what the requests before it got.
RunningRemainder(t, k) ==
    SumOutputs(unspentOutputs) -
       SumOutputAmounts(SelectSeq(txs[t].outputs,
           LAMBDA o : \E j \in 1..(k - 1) : batchedRequests[j].id = o.item))

\* What the specification says of the k-th request when the funds left are
\* less than its amount: its output carries the funds left, no later request
\* has an output, there is no remainder output, and the outputs add up to
\* the inputs.
Truncated(t, k) ==
    /\ \E n \in OutputsFor(t, batchedRequests[k].id) :
          /\ OutputsFor(t, batchedRequests[k].id) = {n}
          /\ txs[t].outputs[n].Amount = RunningRemainder(t, k)
          /\ txs[t].outputs[n].Address = batchedRequests[k].Bech32
    /\ \A j \in (k + 1)..Len(batchedRequests) :
          OutputsFor(t, batchedRequests[j].id) = {}
    /\ \A n \in 1..Len(txs[t].outputs) : txs[t].outputs[n].Address # FaucetAddress
    /\ SumOutputAmounts(txs[t].outputs) = SumOutputs(unspentOutputs)

C30_PendingItemsPaid ==
    pendingTransaction # NoPending =>
       LET t == pendingTransaction.TransactionID
           items == pendingTransaction.QueuedItems
       IN /\ Len(items) <= Cardinality(RequestOutputs(t))
          /\ \A k \in 1..Len(items) :
                \E n \in OutputsFor(t, items[k].id) :
                   /\ OutputsFor(t, items[k].id) = {n}
                   /\ txs[t].outputs[n].Amount = items[k].BaseTokenAmount
                   /\ txs[t].outputs[n].Address = items[k].Bech32

\* ---------------------------------------------------------------------- C31
\* The transactions the slot was armed with that the ledger accepted and that
\* pay request i.
PaidBy(i) ==
    {t \in DOMAIN txs :
        txs[t].armed /\ txs[t].state = "accepted" /\ OutputsFor(t, i) # {}}

\* C31: no request is paid twice: a request with an output in a transaction
\* the ledger accepted has no output in another accepted transaction, also
\* when the poll readded the batch before the acceptance became visible.
C31_NoRequestPaidTwice ==
    \A i \in DOMAIN fate : Cardinality(PaidBy(i)) <= 1

\* ---------------------------------------------------------------------- C32
\* C32: under every interleaving of the Batcher, the poll and the
\* ledger-update handler, the pending slot is never dereferenced while it is
\* null: clear and readd are applied to the armed slot they were decided for,
\* and the Batcher's read of the slot after its snapshot does not find it
\* null.
C32_NoNilDereference ==
    /\ ~misapplied
    /\ pcB # "panic"

\* ---------------------------------------------------------------------- C33
\* C33: the Batcher submits a transaction only if the filter accepted a
\* request or the faucet has at least two unspent outputs: no submitted
\* transaction has fewer than two inputs and no request output, also when
\* the batch was not empty and all its requests were deferred or dropped.
\* (With fewer than two inputs every request the filter accepts gets an
\* output, so the outputs tell whether a request was accepted.)
C33_NoIdleSubmission ==
    \A t \in DOMAIN txs :
       Cardinality(txs[t].inputs) >= 2 \/ RequestOutputs(t) # {}

\* ---------------------------------------------------------------------- C34
\* The outputs of transaction t that go back to the faucet address.
RemainderOutputs(t) ==
    {n \in 1..Len(txs[t].outputs) : txs[t].outputs[n].Address = FaucetAddress}

====
